---- MODULE Spec2Model ----
(***************************************************************************)
(* FraudShield: the decision orchestration engine.                         *)
(*                                                                         *)
(* FraudOrchestratorAgent.process and the four workflows it dispatches to  *)
(* (orchestrator.py), the cost model (config/rewards.py) and the           *)
(* transaction analyst's cost-sensitive step (transaction_analyst.py).     *)
(*                                                                         *)
(* Numbers.  A risk contribution is a percentage 0..100 (0.05 is 5).       *)
(* A weight is a percentage (0.30 is 30).  A product of the two, and so a  *)
(* fraud probability, is in units of 1/10000 (0.7 is 7000): the unit of    *)
(* round(x, 4) in the code.                                                *)
(*                                                                         *)
(* Eleven specifications:                                                  *)
(*   Spec        the repository as shipped: the stub tools behind the      *)
(*               agents, and REWARD_CONFIG as RewardConfig() builds it.    *)
(*   SpecHarness the same code with the agents' tools replaced by doubles  *)
(*               (any contribution, an exception, or a call that blocks)   *)
(*               and with a reward configuration that may carry the        *)
(*               flag_threshold attribute the code reads.                  *)
(*   SpecDecide  _decide_phase applied to an analysis_results dict built   *)
(*               in any insertion order.                                   *)
(*   SpecSettings the settings service (settings_service.py) behind the    *)
(*               settings routes: update, import, reset, read.             *)
(*   SpecApp     FraudShieldApp.process_transaction: the orchestrator run, *)
(*               the UI response, the notification and the return.         *)
(*   SpecCost    classify_risk, should_flag and the two expected-reward    *)
(*               functions applied to a probability.                       *)
(*   SpecRouter  MessageRouter.queue_message and process_queue (a2a).      *)
(*   SpecRegistry AgentRegistry: register, deregister, status, heartbeat,  *)
(*               cleanup_stale_agents (a2a).                               *)
(*   SpecProtocol A2AProtocol: create_task_request and process_response.   *)
(*   SpecService concurrent calls of SettingsService that write settings   *)
(*               and audit entries.                                        *)
(*   SpecWs      WebSocketManager.broadcast interleaved with connect and   *)
(*               disconnect.                                               *)
(***************************************************************************)
EXTENDS Integers, Sequences, FiniteSets, TLC

VARIABLES
    tools,              \* "stub": the shipped tool functions; "double": test doubles
    reward_config,      \* REWARD_CONFIG: whether it has a flag_threshold attribute, and its value
    workflow,           \* WorkflowType passed to process
    request,            \* the request dict
    pc,                 \* position of the coroutine process()
    current_phase,      \* OrchestratorState.current_phase
    phases,             \* history of the values assigned to current_phase
    intake,             \* state.results["intake"]
    analysis,           \* analysis_results: insertion-ordered dict, as a sequence of [key, val]
    decision,           \* state.results["decision"]
    explanation,        \* state.results["explanation"]
    invoked,            \* agents whose entry point has been called in this run
    batch_results,      \* batch_analyze: results accumulated so far
    response,           \* what process() returned
    app,                \* FraudShieldApp.process_transaction around process(), with the NotificationService
    settings,           \* SettingsService: its cache, its settings file, its audit file
    calc,               \* the cost model's functions applied to a probability
    router,             \* MessageRouter: its message_queue and the coroutine process_queue
    registry,           \* AgentRegistry: agents and task_to_agents
    protocol,           \* A2AProtocol: pending_tasks and completed_tasks
    ws,                 \* WebSocketManager: active_connections and a broadcast in progress
    svc                 \* SettingsService: its lock and the calls in progress

vars == <<tools, reward_config, workflow, request, pc, current_phase, phases,
          intake, analysis, decision, explanation, invoked, batch_results, response,
          app, settings, calc, router, registry, protocol, ws, svc>>

----------------------------------------------------------------------------
(* Bounds *)

MaxDocs == 1
MaxBatch == 2

----------------------------------------------------------------------------
(* config/rewards.py *)

TRUE_POSITIVE_REWARD == 10
TRUE_NEGATIVE_REWARD == 1
FALSE_POSITIVE_PENALTY == -5
FALSE_NEGATIVE_PENALTY == -50

\* thresholds of classify_risk and the default threshold of should_flag, in 1/10000
CRITICAL_CUT == 7000
HIGH_CUT == 4000
MEDIUM_CUT == 2000
DEFAULT_FLAG_THRESHOLD == 3000

\* the cutpoints tested from the lowest up
classify_risk_lowest_first(score) ==
    IF score >= MEDIUM_CUT THEN "medium"
    ELSE IF score >= HIGH_CUT THEN "high"
    ELSE IF score >= CRITICAL_CUT THEN "critical"
    ELSE "low"

classify_risk(score) ==
    IF score >= CRITICAL_CUT THEN "critical"
    ELSE IF score >= HIGH_CUT THEN "high"
    ELSE IF score >= MEDIUM_CUT THEN "medium"
    ELSE "low"

\* should_flag(score, threshold)
should_flag_at(score, threshold) == score >= threshold

\* should_flag(score), the threshold at its default
should_flag(score) == should_flag_at(score, DEFAULT_FLAG_THRESHOLD)

cost_matrix_applied ==
    [TP |-> TRUE_POSITIVE_REWARD, TN |-> TRUE_NEGATIVE_REWARD,
     FP |-> FALSE_POSITIVE_PENALTY, FN |-> FALSE_NEGATIVE_PENALTY]

----------------------------------------------------------------------------
(* Values *)

None == [none |-> TRUE]

WorkflowType == {"standard", "quick", "investigation", "batch"}

\* keys of analysis_results, in the order _analyze_phase inserts them
AnalysisKeys == <<"document_analysis", "transaction_analysis", "pattern_detection",
                  "identity_verification", "network_analysis">>

KeySet == {AnalysisKeys[i] : i \in 1..Len(AnalysisKeys)}

\* contributions a tool double may yield, as percentages
Scores == {0, 5, 100}

\* a transaction dict: absent ({}), or with its id, amount and beneficiary_id
Transactions ==
    {[present |-> FALSE, id |-> "", amount |-> 0, beneficiary_id |-> ""]} \cup
    [present : {TRUE}, id : {"", "T1"}, amount : {-1, 100}, beneficiary_id : {"", "B1"}]

\* a beneficiary dict: absent ({}), or with a beneficiary_id that may be empty
Beneficiaries ==
    {[present |-> FALSE, beneficiary_id |-> ""]} \cup
    [present : {TRUE}, beneficiary_id : {"", "B1"}]

NoResponse ==
    [status |-> "none", error |-> "", workflow |-> "", decision |-> "",
     fraud_probability |-> 0, risk_level |-> "", explanation |-> "",
     agents_invoked |-> <<>>, report |-> FALSE, results |-> <<>>,
     transactions_processed |-> 0, flagged_count |-> 0, pass_count |-> 0]

\* a component no request has been made to
NoApp == [pc |-> "idle"]
NoSettings == [pc |-> "idle"]
NoCalc == [pc |-> "idle"]
\* a component of the a2a package or of the backend services that is not in use
NoComponent == [pc |-> "idle"]

NoDecision ==
    [action |-> "", fraud_probability |-> 0, risk_level |-> "", confidence |-> 0,
     component_scores |-> None, threshold_used |-> 0, key_findings |-> <<>>,
     cost_matrix_applied |-> None]

----------------------------------------------------------------------------
(* Python dict helpers: analysis_results is a sequence of [key, val] entries *)

Has(d, k) == \E i \in 1..Len(d) : d[i].key = k

\* d.get(k, {}).get(field, default): the value stored under k, or the default
GetVal(d, k, default) ==
    IF Has(d, k) THEN d[CHOOSE i \in 1..Len(d) : d[i].key = k].val ELSE default

Keys(d) == [i \in 1..Len(d) |-> d[i].key]

Min(a, b) == IF a < b THEN a ELSE b
Max(a, b) == IF a > b THEN a ELSE b

----------------------------------------------------------------------------
(* What a call of an agent can do.  With the shipped stub tools an agent    *)
(* computes its result synchronously, or raises on a malformed input; with  *)
(* tool doubles it may also block on its external call.                     *)

OutcomeKinds == IF tools = "double" THEN {"ok", "raise", "block"} ELSE {"ok", "raise"}

\* detect_tampering passes 5 of 5 applicable checks: authenticity 1.0
STUB_AUTHENTICITY == 100

AgentValues(agent) ==
    IF tools = "stub" /\ agent = "document_analysis" THEN {STUB_AUTHENTICITY} ELSE Scores

\* the part of an agent's result dict the orchestrator reads: its score, and
\* the number of items in the list it reports (anomalies, patterns_matched,
\* issues_found, or fraud_rings.detected_count); the document analyst reports
\* no such list
\* the severity the orchestrator gives a finding of an agent's list: the
\* anomaly's or issue's own, "high" for a pattern matched above 0.7
Severities(agent) ==
    CASE agent = "transaction_analysis" -> {"high"}
      [] agent = "pattern_detection" -> {"medium", "high"}
      [] agent = "identity_verification" -> {"medium", "high"}
      [] OTHER -> {"critical"}

AgentResults(agent) ==
    [val : AgentValues(agent), items : {0}, severity : {""}] \cup
    (IF agent = "document_analysis" THEN {}
     ELSE [val : {100}, items : {1}, severity : Severities(agent)])

\* process(): the except clause turns any exception of a workflow into an error dict
ErrorResponse(err) == [NoResponse EXCEPT !.status = "error", !.error = err]

Raise(err) ==
    /\ response' = ErrorResponse(err)
    /\ pc' = "returned"

\* a handler that swallows the exception and carries on at resume
PropagateSwallowed(err, resume) ==
    /\ pc' = resume
    /\ UNCHANGED response

\* an exception raised at an await of a workflow, whose normal continuation is
\* resume: no phase has a handler, so it reaches the except clause of process()
Propagate(err, resume) == Raise(err)

----------------------------------------------------------------------------
(* FraudOrchestratorAgent._decide_phase: the aggregation *)

WeightKeys == <<"transaction", "document", "pattern", "identity", "network">>

weights == [transaction |-> 30, document |-> 20, pattern |-> 25, identity |-> 15, network |-> 10]

\* the value of the i-th analysis stored, whatever its key
ValueAt(d, i, default) == IF i <= Len(d) THEN d[i].val ELSE default

\* scores paired with the analyses by position instead of by key
ExtractScoresByPosition(analysis_results) ==
    [transaction |-> ValueAt(analysis_results, 2, 0),
     document    |-> 100 - ValueAt(analysis_results, 1, 100),
     pattern     |-> ValueAt(analysis_results, 3, 0),
     identity    |-> 100 - ValueAt(analysis_results, 4, 100),
     network     |-> ValueAt(analysis_results, 5, 0)]

\* lines 309-315: a missing analysis reads as contribution 0
ExtractScores(analysis_results) ==
    [transaction |-> GetVal(analysis_results, "transaction_analysis", 0),
     document    |-> 100 - GetVal(analysis_results, "document_analysis", 100),
     pattern     |-> GetVal(analysis_results, "pattern_detection", 0),
     identity    |-> 100 - GetVal(analysis_results, "identity_verification", 100),
     network     |-> GetVal(analysis_results, "network_analysis", 0)]

RECURSIVE SumOver(_, _, _)
\* sum(f[k] * g[k] for k in keys[1..n])
SumOver(keys, n, term) ==
    IF n = 0 THEN 0 ELSE SumOver(keys, n - 1, term) + term[keys[n]]

\* lines 327-330
WeightedScore(scores) ==
    SumOver(WeightKeys, Len(WeightKeys), [k \in DOMAIN weights |-> scores[k] * weights[k]])

\* a score brought into range by folding it instead of clamping it
FraudProbabilityFolded(weighted_score) == weighted_score % 10000

\* line 333
FraudProbability(weighted_score) == Min(Max(weighted_score, 0), 10000)

\* lines 338-343
FinalAction(risk_level, flag_decision) ==
    IF risk_level = "critical" THEN "BLOCK"
    ELSE IF flag_decision THEN "FLAG"
    ELSE "PASS"

\* lines 346-347: the variance of the five scores around the weighted score,
\* in units of 10^-8, and the confidence in units of 1/10000
Confidence(scores, weighted_score) ==
    LET sq == [k \in DOMAIN weights |-> (scores[k] * 100 - weighted_score) * (scores[k] * 100 - weighted_score)]
        score_variance == SumOver(WeightKeys, Len(WeightKeys), sq) \div Len(WeightKeys)
    IN  10000 - (Min(score_variance, 25000000) * 4) \div 10000

\* d.get(k, {}).get(list, []): the number of items the analysis under k reports
GetItems(d, k) ==
    IF Has(d, k) THEN d[CHOOSE i \in 1..Len(d) : d[i].key = k].items ELSE 0

GetSeverity(d, k) ==
    IF Has(d, k) THEN d[CHOOSE i \in 1..Len(d) : d[i].key = k].severity ELSE ""

\* n findings, all alike
Findings(n, source, type, severity) ==
    [i \in 1..n |-> [source |-> source, type |-> type, severity |-> severity]]

severity_order == [critical |-> 0, high |-> 1, medium |-> 2, low |-> 3]

\* list.sort(key = severity_order): stable
SortBySeverity(findings) ==
    LET Of(rank) == SelectSeq(findings, LAMBDA f : severity_order[f.severity] = rank)
    IN  Of(0) \o Of(1) \o Of(2) \o Of(3)

\* lines 369-427: one finding per anomaly, matched pattern and identity issue,
\* one for a document authenticity below 0.7, one for detected fraud rings;
\* sorted by severity, the first ten kept
_extract_key_findings(analysis_results) ==
    LET findings ==
            Findings(GetItems(analysis_results, "transaction_analysis"),
                     "transaction", "amount_spike",
                     GetSeverity(analysis_results, "transaction_analysis"))
            \o Findings(IF GetVal(analysis_results, "document_analysis", 100) < 70 THEN 1 ELSE 0,
                        "document", "authenticity_concern", "high")
            \o Findings(GetItems(analysis_results, "pattern_detection"),
                        "pattern", "pattern_id",
                        GetSeverity(analysis_results, "pattern_detection"))
            \o Findings(GetItems(analysis_results, "identity_verification"),
                        "identity", "foreign_account",
                        GetSeverity(analysis_results, "identity_verification"))
            \o Findings(IF GetItems(analysis_results, "network_analysis") > 0 THEN 1 ELSE 0,
                        "network", "fraud_ring", "critical")
    IN  SubSeq(SortBySeverity(findings), 1, Min(Len(findings), 10))

\* the dict _decide_phase builds, up to the read of reward_config.flag_threshold
DecisionOf(analysis_results, cfg) ==
    LET scores == ExtractScores(analysis_results)
        weighted_score == WeightedScore(scores)
        fraud_probability == FraudProbability(weighted_score)
        risk_level == classify_risk(fraud_probability)
        flag_decision == should_flag(fraud_probability)
    IN  [action |-> FinalAction(risk_level, flag_decision),
         fraud_probability |-> fraud_probability,
         risk_level |-> risk_level,
         confidence |-> Confidence(scores, weighted_score),
         component_scores |-> scores,
         threshold_used |-> cfg.flag_threshold,
         key_findings |-> _extract_key_findings(analysis_results),
         cost_matrix_applied |-> cost_matrix_applied]

----------------------------------------------------------------------------
(* TransactionAnalystAgent.analyze, steps 6-7: the result for a transaction  *)
(* that score_transaction scored p                                           *)

TxResult(p) ==
    [fraud_probability |-> p,
     risk_level |-> classify_risk(p * 100),
     recommended_action |-> IF should_flag(p * 100) THEN "FLAG" ELSE "PASS"]

----------------------------------------------------------------------------
(* The reward configuration object.  RewardConfig() has the four rewards    *)
(* and the discount factor, and no flag_threshold attribute.                *)

ShippedRewardConfig == [has_flag_threshold |-> FALSE, flag_threshold |-> 0]

\* |FP| / (|FP| + |FN|) = 5/55, in 1/10000
DERIVED_THRESHOLD == 909

RewardConfigs ==
    {ShippedRewardConfig} \cup
    [has_flag_threshold : {TRUE}, flag_threshold : {DERIVED_THRESHOLD, DEFAULT_FLAG_THRESHOLD}]

----------------------------------------------------------------------------
(* FraudOrchestratorAgent.process *)

Requests ==
    [transaction : Transactions, documents : 0..MaxDocs, beneficiary : Beneficiaries,
     transactions : {0}]

BatchRequests ==
    [transaction : {[present |-> FALSE, id |-> "", amount |-> 0, beneficiary_id |-> ""]},
     documents : {0}, beneficiary : {[present |-> FALSE, beneficiary_id |-> ""]},
     transactions : 0..MaxBatch]

\* "Limite: 1000 transactions par requête" (routers/transactions.py)
BATCH_LIMIT == 1000

\* a batch of one transaction more than the documented limit
OversizedBatchRequests ==
    [transaction : {[present |-> FALSE, id |-> "", amount |-> 0, beneficiary_id |-> ""]},
     documents : {0}, beneficiary : {[present |-> FALSE, beneficiary_id |-> ""]},
     transactions : {BATCH_LIMIT + 1}]

InitRun(batches) ==
    /\ workflow \in WorkflowType
    /\ request \in (IF workflow = "batch" THEN batches ELSE Requests)
    /\ pc = "start"
    /\ current_phase = "intake"
    /\ phases = <<>>
    /\ intake = None
    /\ analysis = <<>>
    /\ decision = NoDecision
    /\ explanation = None
    /\ invoked = {}
    /\ batch_results = <<>>
    /\ response = NoResponse

\* a dispatch whose Quick branch is missing: Quick requests take the else branch
ProcessWithoutQuickBranch ==
    /\ pc = "start"
    /\ pc' = CASE workflow = "batch" -> "batch"
               [] OTHER -> "intake"
    /\ UNCHANGED <<app, settings, calc, router, registry, protocol, ws, svc>>
    /\ UNCHANGED <<tools, reward_config, workflow, request, current_phase, phases,
                   intake, analysis, decision, explanation, invoked, batch_results, response>>

\* lines 164-172: dispatch on the workflow type
Process ==
    /\ pc = "start"
    /\ pc' = CASE workflow = "quick" -> "quick"
               [] workflow = "batch" -> "batch"
               [] OTHER -> "intake"
    /\ UNCHANGED <<app, settings, calc, router, registry, protocol, ws, svc>>
    /\ UNCHANGED <<tools, reward_config, workflow, request, current_phase, phases,
                   intake, analysis, decision, explanation, invoked, batch_results, response>>

\* _standard_workflow lines 198-205 and _intake_phase
IntakePhase ==
    /\ pc = "intake"
    /\ current_phase' = "intake"
    /\ phases' = Append(phases, "intake")
    /\ intake' = [transaction_received |-> request.transaction.present,
                  documents_count |-> request.documents,
                  beneficiary_provided |-> request.beneficiary.present,
                  validation_passed |-> TRUE]
    /\ pc' = "analyze"
    /\ UNCHANGED <<app, settings, calc, router, registry, protocol, ws, svc>>
    /\ UNCHANGED <<tools, reward_config, workflow, request, analysis, decision,
                   explanation, invoked, batch_results, response>>

\* _standard_workflow line 208 and _analyze_phase up to its first await
AnalyzeBegin ==
    /\ pc = "analyze"
    /\ current_phase' = "analyze"
    /\ phases' = Append(phases, "analyze")
    /\ pc' = "document"
    /\ UNCHANGED <<app, settings, calc, router, registry, protocol, ws, svc>>
    /\ UNCHANGED <<tools, reward_config, workflow, request, intake, analysis, decision,
                   explanation, invoked, batch_results, response>>

\* an agent call that is started and never joined
AwaitNotJoined(key, next) ==
    /\ invoked' = invoked \cup {key}
    /\ \E kind \in OutcomeKinds, r \in AgentResults(key) :
         \/ /\ kind = "ok"
            /\ analysis' = Append(analysis, [key |-> key, val |-> r.val, items |-> r.items,
                                             severity |-> r.severity])
            /\ pc' = next
            /\ UNCHANGED response
         \/ /\ kind = "raise"
            /\ Propagate("AgentError", next)
            /\ UNCHANGED analysis
         \/ /\ kind = "block"
            /\ pc' = next
            /\ UNCHANGED <<analysis, response>>

\* the await of one agent: it returns a result that is stored under key, it
\* raises, or it never returns
Await(key, next) ==
    /\ invoked' = invoked \cup {key}
    /\ \E kind \in OutcomeKinds, r \in AgentResults(key) :
         \/ /\ kind = "ok"
            /\ analysis' = Append(analysis, [key |-> key, val |-> r.val, items |-> r.items,
                                             severity |-> r.severity])
            /\ pc' = next
            /\ UNCHANGED response
         \/ /\ kind = "raise"
            /\ Propagate("AgentError", next)
            /\ UNCHANGED analysis
         \/ /\ kind = "block"
            /\ pc' = "blocked"
            /\ UNCHANGED <<analysis, response>>

Skip(next) ==
    /\ pc' = next
    /\ UNCHANGED <<analysis, invoked, response>>

\* lines 268-271
DocumentAnalysis ==
    /\ pc = "document"
    /\ IF request.documents > 0
         THEN Await("document_analysis", "transaction")
         ELSE Skip("transaction")
    /\ UNCHANGED <<app, settings, calc, router, registry, protocol, ws, svc>>
    /\ UNCHANGED <<tools, reward_config, workflow, request, current_phase, phases,
                   intake, decision, explanation, batch_results>>

\* lines 273-275, with TransactionAnalystAgent.analyze: the agent scores the
\* transaction and then builds its result, reading reward_config.flag_threshold
TransactionScoring ==
    /\ pc = "transaction"
    /\ invoked' = invoked \cup {"transaction_analysis"}
    /\ \E kind \in OutcomeKinds, r \in AgentResults("transaction_analysis") :
         \/ /\ kind = "ok"
            /\ reward_config.has_flag_threshold
            /\ analysis' = Append(analysis, [key |-> "transaction_analysis",
                                             val |-> TxResult(r.val).fraud_probability,
                                             items |-> r.items,
                                             severity |-> r.severity])
            /\ pc' = "pattern"
            /\ UNCHANGED response
         \/ /\ kind = "ok"
            /\ ~reward_config.has_flag_threshold
            /\ Propagate("AttributeError", "pattern")
            /\ UNCHANGED analysis
         \/ /\ kind = "raise"
            /\ Propagate("AgentError", "pattern")
            /\ UNCHANGED analysis
         \/ /\ kind = "block"
            /\ pc' = "blocked"
            /\ UNCHANGED <<analysis, response>>
    /\ UNCHANGED <<app, settings, calc, router, registry, protocol, ws, svc>>
    /\ UNCHANGED <<tools, reward_config, workflow, request, current_phase, phases,
                   intake, decision, explanation, batch_results>>

\* lines 277-279
PatternDetection ==
    /\ pc = "pattern"
    /\ Await("pattern_detection", "identity")
    /\ UNCHANGED <<app, settings, calc, router, registry, protocol, ws, svc>>
    /\ UNCHANGED <<tools, reward_config, workflow, request, current_phase, phases,
                   intake, decision, explanation, batch_results>>

\* lines 281-286
IdentityVerification ==
    /\ pc = "identity"
    /\ IF request.beneficiary.present
         THEN Await("identity_verification", "network")
         ELSE Skip("network")
    /\ UNCHANGED <<app, settings, calc, router, registry, protocol, ws, svc>>
    /\ UNCHANGED <<tools, reward_config, workflow, request, current_phase, phases,
                   intake, decision, explanation, batch_results>>

\* line 289: beneficiary.get("beneficiary_id") or transaction.get("beneficiary_id")
NetworkBeneficiaryId(req) ==
    IF req.beneficiary.beneficiary_id # "" THEN req.beneficiary.beneficiary_id
    ELSE req.transaction.beneficiary_id

\* lines 288-296
NetworkAnalysis ==
    /\ pc = "network"
    /\ IF NetworkBeneficiaryId(request) # ""
         THEN Await("network_analysis", "decide")
         ELSE Skip("decide")
    /\ UNCHANGED <<app, settings, calc, router, registry, protocol, ws, svc>>
    /\ UNCHANGED <<tools, reward_config, workflow, request, current_phase, phases,
                   intake, decision, explanation, batch_results>>

\* _standard_workflow lines 214-217 with _decide_phase: building the returned
\* dict reads reward_config.flag_threshold (line 359)
DecidePhase ==
    /\ pc = "decide"
    /\ current_phase' = "decide"
    /\ phases' = Append(phases, "decide")
    /\ IF reward_config.has_flag_threshold
         THEN /\ decision' = DecisionOf(analysis, reward_config)
              /\ pc' = "explain"
              /\ UNCHANGED response
         ELSE /\ Raise("AttributeError")
              /\ UNCHANGED decision
    /\ UNCHANGED <<app, settings, calc, router, registry, protocol, ws, svc>>
    /\ UNCHANGED <<tools, reward_config, workflow, request, intake, analysis,
                   explanation, invoked, batch_results>>

\* _compile_response
CompileResponse(dec, expl, analysis_results) ==
    [NoResponse EXCEPT !.status = "success",
                       !.workflow = workflow,
                       !.decision = dec.action,
                       !.fraud_probability = dec.fraud_probability,
                       !.risk_level = dec.risk_level,
                       !.explanation = expl.explanation_text,
                       !.agents_invoked = Keys(analysis_results)]

\* _explain_phase, lines 437-445: the decision data given to explain()
DecisionData(dec, analysis_results) ==
    [fraud_probability |-> dec.fraud_probability,
     risk_level |-> dec.risk_level,
     recommended_action |-> dec.action,
     anomalies |-> GetItems(analysis_results, "transaction_analysis"),
     matched_patterns |-> GetItems(analysis_results, "pattern_detection")]

\* _generate_recommendations: the actions recommended, in order
_generate_recommendations(decision_data) ==
    IF decision_data.recommended_action = "FLAG"
      THEN <<[priority |-> "high", action |-> "Transferer pour investigation"]>>
           \o (IF decision_data.anomalies > 0
                 THEN <<[priority |-> "medium", action |-> "Verifier les justificatifs du montant"]>>
                 ELSE <<>>)
           \o (IF decision_data.matched_patterns > 0
                 THEN <<[priority |-> "medium", action |-> "Comparer avec cas similaires"]>>
                 ELSE <<>>)
      ELSE <<[priority |-> "low", action |-> "Traitement automatique possible"]>>

\* what ExplanationGeneratorAgent.explain returns for the decision data
ExplanationOf(decision_data) ==
    [explanation_text |-> "generated",
     recommendations |-> _generate_recommendations(decision_data),
     decision_summary |-> [fraud_probability |-> decision_data.fraud_probability,
                           risk_level |-> decision_data.risk_level,
                           action |-> decision_data.recommended_action]]

\* _standard_workflow lines 219-227 with _explain_phase and _compile_response;
\* _investigation_workflow goes on to the report, the others return
ExplainPhase ==
    /\ pc = "explain"
    /\ current_phase' = "explain"
    /\ phases' = Append(phases, "explain")
    /\ invoked' = invoked \cup {"explanation"}
    /\ \E kind \in OutcomeKinds :
         \/ /\ kind = "ok"
            /\ explanation' = ExplanationOf(DecisionData(decision, analysis))
            /\ response' = CompileResponse(decision, explanation', analysis)
            /\ pc' = IF workflow = "investigation" THEN "report" ELSE "returned"
         \/ /\ kind = "raise"
            /\ Raise("AgentError")
            /\ UNCHANGED explanation
         \/ /\ kind = "block"
            /\ pc' = "blocked"
            /\ UNCHANGED <<explanation, response>>
    /\ UNCHANGED <<app, settings, calc, router, registry, protocol, ws, svc>>
    /\ UNCHANGED <<tools, reward_config, workflow, request, intake, analysis,
                   decision, batch_results>>

\* a report step that writes its conclusion into investigation_data["decision"],
\* the dict object of the decision record
InvestigationReportInPlace ==
    /\ pc = "report"
    /\ invoked' = invoked \cup {"report"}
    /\ decision' = [decision EXCEPT !.action = "INVESTIGATE"]
    /\ response' = [response EXCEPT !.report = TRUE]
    /\ pc' = "returned"
    /\ UNCHANGED <<app, settings, calc, router, registry, protocol, ws, svc>>
    /\ UNCHANGED <<tools, reward_config, workflow, request, current_phase, phases,
                   intake, analysis, explanation, batch_results>>

\* _investigation_workflow lines 545-559: create_report, attached to the result
InvestigationReport ==
    /\ pc = "report"
    /\ invoked' = invoked \cup {"report"}
    /\ \E kind \in OutcomeKinds :
         \/ /\ kind = "ok"
            /\ response' = [response EXCEPT !.report = TRUE]
            /\ pc' = "returned"
         \/ /\ kind = "raise"
            /\ Raise("AgentError")
         \/ /\ kind = "block"
            /\ pc' = "blocked"
            /\ UNCHANGED response
    /\ UNCHANGED <<app, settings, calc, router, registry, protocol, ws, svc>>
    /\ UNCHANGED <<tools, reward_config, workflow, request, current_phase, phases,
                   intake, analysis, decision, explanation, batch_results>>

\* the dict _quick_workflow returns for the transaction analyst's result
QuickResponse(tx_result) ==
    LET fraud_probability == tx_result.fraud_probability * 100
        risk_level == classify_risk(fraud_probability)
    IN  [NoResponse EXCEPT !.status = "success",
                           !.workflow = "quick",
                           !.decision = IF should_flag(fraud_probability) THEN "FLAG" ELSE "PASS",
                           !.fraud_probability = fraud_probability,
                           !.risk_level = risk_level]

\* _quick_workflow
QuickWorkflow ==
    /\ pc = "quick"
    /\ invoked' = invoked \cup {"transaction_analysis"}
    /\ \E kind \in OutcomeKinds, p \in Scores :
         \/ /\ kind = "ok"
            /\ reward_config.has_flag_threshold
            /\ response' = QuickResponse(TxResult(p))
            /\ pc' = "returned"
         \/ /\ kind = "ok"
            /\ ~reward_config.has_flag_threshold
            /\ Raise("AttributeError")
         \/ /\ kind = "raise"
            /\ Raise("AgentError")
         \/ /\ kind = "block"
            /\ pc' = "blocked"
            /\ UNCHANGED response
    /\ UNCHANGED <<app, settings, calc, router, registry, protocol, ws, svc>>
    /\ UNCHANGED <<tools, reward_config, workflow, request, current_phase, phases,
                   intake, analysis, decision, explanation, batch_results>>

\* batch_analyze, lines 236-241: the entry kept of the result of transaction i
BatchEntry(result, i) ==
    [transaction_id |-> i,
     fraud_probability |-> result.fraud_probability,
     risk_level |-> result.risk_level,
     recommended_action |-> result.recommended_action]

\* flagged, one more for each result whatever its action
CountEvery(results) == Len(results)

\* batch_analyze, lines 243-244: flagged, one more for each result of action FLAG
RECURSIVE CountFlagged(_)
CountFlagged(results) ==
    IF results = <<>> THEN 0
    ELSE CountFlagged(SubSeq(results, 1, Len(results) - 1))
         + (IF results[Len(results)].recommended_action = "FLAG" THEN 1 ELSE 0)

\* _batch_workflow awaiting batch_analyze: one turn of its loop over the transactions
BatchItem ==
    /\ pc = "batch"
    /\ Len(batch_results) < request.transactions
    /\ invoked' = invoked \cup {"transaction_analysis"}
    /\ \E kind \in OutcomeKinds, p \in Scores :
         \/ /\ kind = "ok"
            /\ reward_config.has_flag_threshold
            /\ batch_results' = Append(batch_results,
                                      BatchEntry(TxResult(p), Len(batch_results) + 1))
            /\ UNCHANGED <<pc, response>>
         \/ /\ kind = "ok"
            /\ ~reward_config.has_flag_threshold
            /\ Raise("AttributeError")
            /\ UNCHANGED batch_results
         \/ /\ kind = "raise"
            /\ Raise("AgentError")
            /\ UNCHANGED batch_results
         \/ /\ kind = "block"
            /\ pc' = "blocked"
            /\ UNCHANGED <<batch_results, response>>
    /\ UNCHANGED <<app, settings, calc, router, registry, protocol, ws, svc>>
    /\ UNCHANGED <<tools, reward_config, workflow, request, current_phase, phases,
                   intake, analysis, decision, explanation>>

\* batch_analyze's return and the dict _batch_workflow builds from it
BatchReturn ==
    /\ pc = "batch"
    /\ Len(batch_results) = request.transactions
    /\ response' = [NoResponse EXCEPT !.status = "success",
                                      !.workflow = "batch",
                                      !.transactions_processed = Len(batch_results),
                                      !.flagged_count = CountFlagged(batch_results),
                                      !.pass_count = Len(batch_results) - CountFlagged(batch_results),
                                      !.results = batch_results]
    /\ pc' = "returned"
    /\ UNCHANGED <<app, settings, calc, router, registry, protocol, ws, svc>>
    /\ UNCHANGED <<tools, reward_config, workflow, request, current_phase, phases,
                   intake, analysis, decision, explanation, invoked, batch_results>>

----------------------------------------------------------------------------
(* The repository as shipped *)

Init ==
    /\ tools = "stub"
    /\ reward_config = ShippedRewardConfig
    /\ InitRun(BatchRequests \cup OversizedBatchRequests)
    /\ app = NoApp /\ settings = NoSettings /\ calc = NoCalc
    /\ router = NoComponent /\ registry = NoComponent /\ protocol = NoComponent /\ ws = NoComponent /\ svc = NoComponent

\* every run ends at the first call of the transaction analyst, so the steps
\* after it are no part of this specification; for the same reason a batch
\* above the documented limit can be followed to its end here
Next ==
    \/ Process
    \/ IntakePhase
    \/ AnalyzeBegin
    \/ DocumentAnalysis
    \/ TransactionScoring
    \/ QuickWorkflow
    \/ BatchItem
    \/ BatchReturn

Spec == Init /\ [][Next]_vars

----------------------------------------------------------------------------
(* The orchestrator over tool doubles and a configurable reward config *)

InitHarness ==
    /\ tools = "double"
    /\ reward_config \in RewardConfigs
    /\ InitRun(BatchRequests)
    /\ app = NoApp /\ settings = NoSettings /\ calc = NoCalc
    /\ router = NoComponent /\ registry = NoComponent /\ protocol = NoComponent /\ ws = NoComponent /\ svc = NoComponent

NextHarness ==
    \/ Next
    \/ PatternDetection
    \/ IdentityVerification
    \/ NetworkAnalysis
    \/ DecidePhase
    \/ ExplainPhase
    \/ InvestigationReport

SpecHarness == InitHarness /\ [][NextHarness]_vars

----------------------------------------------------------------------------
(* _decide_phase on an analysis_results dict whose entries were inserted in  *)
(* any order                                                                 *)

InitDecide ==
    /\ tools = "double"
    /\ reward_config \in RewardConfigs
    /\ workflow = "standard"
    /\ request \in {r \in Requests : r.transaction.present /\ r.transaction.id = "T1"
                                      /\ r.transaction.amount = 100
                                      /\ r.transaction.beneficiary_id = "B1"
                                      /\ r.documents = MaxDocs
                                      /\ r.beneficiary.beneficiary_id = "B1"}
    /\ pc = "gather"
    /\ current_phase = "analyze"
    /\ phases = <<"intake", "analyze">>
    /\ intake = None
    /\ analysis = <<>>
    /\ decision = NoDecision
    /\ explanation = None
    /\ invoked = {}
    /\ batch_results = <<>>
    /\ response = NoResponse
    /\ app = NoApp /\ settings = NoSettings /\ calc = NoCalc
    /\ router = NoComponent /\ registry = NoComponent /\ protocol = NoComponent /\ ws = NoComponent /\ svc = NoComponent

\* the caller of _decide_phase stores one more analysis under a key not yet present
GatherResult ==
    /\ pc = "gather"
    /\ \E k \in KeySet : \E r \in AgentResults(k) :
         /\ ~Has(analysis, k)
         /\ analysis' = Append(analysis, [key |-> k, val |-> r.val, items |-> r.items,
                                             severity |-> r.severity])
         /\ invoked' = invoked \cup {k}
    /\ UNCHANGED <<app, settings, calc, router, registry, protocol, ws, svc>>
    /\ UNCHANGED <<tools, reward_config, workflow, request, pc, current_phase, phases,
                   intake, decision, explanation, batch_results, response>>

\* the caller passes the dict to _decide_phase
GatherDone ==
    /\ pc = "gather"
    /\ pc' = "decide"
    /\ UNCHANGED <<app, settings, calc, router, registry, protocol, ws, svc>>
    /\ UNCHANGED <<tools, reward_config, workflow, request, current_phase, phases,
                   intake, analysis, decision, explanation, invoked, batch_results, response>>

NextDecide ==
    \/ GatherResult
    \/ GatherDone
    \/ DecidePhase

SpecDecide == InitDecide /\ [][NextDecide]_vars

----------------------------------------------------------------------------
(* backend/services/settings_service.py with the routes of                  *)
(* backend/routers/settings.py that write the cost matrix.  Of AllSettings  *)
(* the model keeps the cost_matrix section.                                 *)

\* the audit entries kept in a behaviour
MaxAudit == 2

\* cost matrices a client may send
CostMatrices == [TP : {10, -1}, TN : {1, -1}, FP : {-5, 0}, FN : {-50, -5, -1, 0}]

\* AllSettings().cost_matrix
DefaultCostMatrix ==
    [TP |-> TRUE_POSITIVE_REWARD, TN |-> TRUE_NEGATIVE_REWARD,
     FP |-> FALSE_POSITIVE_PENALTY, FN |-> FALSE_NEGATIVE_PENALTY]

Abs(x) == IF x < 0 THEN -x ELSE x

\* validate_settings, the cost matrix section: the errors and the warnings
validate_settings(m) ==
    LET errors == (IF m.FN >= 0 THEN {"fn_not_negative"} ELSE {})
                  \cup (IF m.FP >= 0 THEN {"fp_not_negative"} ELSE {})
        warnings == IF Abs(m.FN) < Abs(m.FP) THEN {"fn_below_fp"} ELSE {}
    IN  [valid |-> errors = {}, errors |-> errors, warnings |-> warnings]

NoResult == [op |-> "", status |-> "", requested |-> None, returned |-> None]

\* _get_settings_unlocked: the cache; else the file, read into the cache; else
\* the defaults, put in the cache and saved
Loaded(s) ==
    IF s.cache # None THEN s
    ELSE IF s.file # None THEN [s EXCEPT !.cache = s.file]
    ELSE [s EXCEPT !.cache = DefaultCostMatrix, !.file = DefaultCostMatrix]

\* _log_audit: the entry appended to the audit file
LogAudit(audit, setting_type, action) ==
    Append(audit, [setting_type |-> setting_type, action |-> action])

\* SettingsService.update_settings with update.cost_matrix = m
update_settings(s, m, op) ==
    [Loaded(s) EXCEPT !.cache = m,
                      !.file = m,
                      !.audit = LogAudit(@, "cost_matrix", "update"),
                      !.last = [op |-> op, status |-> "ok", requested |-> m, returned |-> m]]

\* PUT /settings: validate_settings first, 400 when it reports errors
PutSettings ==
    /\ settings.pc = "ready"
    /\ Len(settings.audit) < MaxAudit
    /\ \E m \in CostMatrices :
         settings' = IF validate_settings(m).valid
                       THEN update_settings(settings, m, "put_settings")
                       ELSE [settings EXCEPT !.last = [op |-> "put_settings", status |-> "http_400",
                                                       requested |-> m, returned |-> None]]
    /\ UNCHANGED <<router, registry, protocol, ws, svc>>
    /\ UNCHANGED <<tools, reward_config, workflow, request, pc, current_phase, phases, intake,
                   analysis, decision, explanation, invoked, batch_results, response, app, calc>>

\* PUT /settings/cost-matrix, and SettingsService.update_cost_matrix
PutCostMatrix ==
    /\ settings.pc = "ready"
    /\ Len(settings.audit) < MaxAudit
    /\ \E m \in CostMatrices : settings' = update_settings(settings, m, "put_cost_matrix")
    /\ UNCHANGED <<router, registry, protocol, ws, svc>>
    /\ UNCHANGED <<tools, reward_config, workflow, request, pc, current_phase, phases, intake,
                   analysis, decision, explanation, invoked, batch_results, response, app, calc>>

\* SettingsService.import_settings of a file whose cost matrix is m
ImportSettings ==
    /\ settings.pc = "ready"
    /\ Len(settings.audit) < MaxAudit
    /\ \E m \in CostMatrices :
         settings' = IF validate_settings(m).valid
                       THEN [settings EXCEPT !.audit = LogAudit(@, "full_import", "import"),
                                             !.file = m,
                                             !.cache = m,
                                             !.last = [op |-> "import", status |-> "ok",
                                                       requested |-> m, returned |-> None]]
                       ELSE [settings EXCEPT !.last = [op |-> "import", status |-> "failed",
                                                       requested |-> m, returned |-> None]]
    /\ UNCHANGED <<router, registry, protocol, ws, svc>>
    /\ UNCHANGED <<tools, reward_config, workflow, request, pc, current_phase, phases, intake,
                   analysis, decision, explanation, invoked, batch_results, response, app, calc>>

\* SettingsService.reset_to_defaults
ResetToDefaults ==
    /\ settings.pc = "ready"
    /\ Len(settings.audit) < MaxAudit
    /\ settings' = [settings EXCEPT !.audit = LogAudit(@, "full_reset", "reset"),
                                    !.cache = DefaultCostMatrix,
                                    !.file = DefaultCostMatrix,
                                    !.last = [op |-> "reset", status |-> "ok", requested |-> None,
                                              returned |-> DefaultCostMatrix]]
    /\ UNCHANGED <<router, registry, protocol, ws, svc>>
    /\ UNCHANGED <<tools, reward_config, workflow, request, pc, current_phase, phases, intake,
                   analysis, decision, explanation, invoked, batch_results, response, app, calc>>

\* SettingsService.invalidate_cache
InvalidateCache ==
    /\ settings.pc = "ready"
    /\ settings' = [settings EXCEPT !.cache = None,
                                    !.last = [op |-> "invalidate", status |-> "ok",
                                              requested |-> None, returned |-> None]]
    /\ UNCHANGED <<router, registry, protocol, ws, svc>>
    /\ UNCHANGED <<tools, reward_config, workflow, request, pc, current_phase, phases, intake,
                   analysis, decision, explanation, invoked, batch_results, response, app, calc>>

\* SettingsService.get_cost_matrix
GetCostMatrix ==
    /\ settings.pc = "ready"
    /\ settings' = [Loaded(settings) EXCEPT !.last = [op |-> "get", status |-> "ok", requested |-> None,
                                                      returned |-> Loaded(settings).cache]]
    /\ UNCHANGED <<router, registry, protocol, ws, svc>>
    /\ UNCHANGED <<tools, reward_config, workflow, request, pc, current_phase, phases, intake,
                   analysis, decision, explanation, invoked, batch_results, response, app, calc>>

\* a new SettingsService over an empty data directory; no fraud detection run
InitSettings ==
    /\ tools = "stub"
    /\ reward_config = ShippedRewardConfig
    /\ workflow = "standard"
    /\ request = CHOOSE r \in Requests : ~r.transaction.present /\ r.documents = 0
                                         /\ ~r.beneficiary.present
    /\ pc = "idle"
    /\ current_phase = "intake"
    /\ phases = <<>>
    /\ intake = None
    /\ analysis = <<>>
    /\ decision = NoDecision
    /\ explanation = None
    /\ invoked = {}
    /\ batch_results = <<>>
    /\ response = NoResponse
    /\ app = NoApp
    /\ calc = NoCalc
    /\ router = NoComponent /\ registry = NoComponent /\ protocol = NoComponent /\ ws = NoComponent /\ svc = NoComponent
    /\ settings = [pc |-> "ready", cache |-> None, file |-> None, audit |-> <<>>, last |-> NoResult]

NextSettings ==
    \/ PutSettings
    \/ PutCostMatrix
    \/ ImportSettings
    \/ ResetToDefaults
    \/ InvalidateCache
    \/ GetCostMatrix

SpecSettings == InitSettings /\ [][NextSettings]_vars

----------------------------------------------------------------------------
(* FraudShieldApp.process_transaction (app.py): the orchestrator's run, then *)
(* the UI response, the notification, and the return to the caller          *)

\* build_fraud_detection_response with create_fraud_decision_message: the
\* message is built from result.get(...) with defaults; result is only read
UIResponseOf(result) ==
    LET dec == IF result.decision = "" THEN "REVIEW" ELSE result.decision
    IN  [decision |-> dec,
         fraud_probability |-> result.fraud_probability,
         risk_level |-> IF result.risk_level = "" THEN "unknown" ELSE result.risk_level,
         text |-> result.explanation,
         requires_action |-> dec \in {"FLAG", "BLOCK"}]

\* line 140: the UI response is built from the result of process()
BuildUIResponse ==
    /\ app.pc = "called"
    /\ pc = "returned"
    /\ app' = [app EXCEPT !.pc = "notify", !.ui_response = UIResponseOf(response)]
    /\ UNCHANGED <<router, registry, protocol, ws, svc>>
    /\ UNCHANGED <<tools, reward_config, workflow, request, pc, current_phase, phases, intake,
                   analysis, decision, explanation, invoked, batch_results, response,
                   settings, calc>>

\* notify_fraud_detected: the channels of the notification
NotificationChannels(risk_level) ==
    {"in_app"} \cup (IF risk_level \in {"high", "critical"} THEN {"email"} ELSE {})
               \cup (IF risk_level = "critical" THEN {"sms"} ELSE {})

\* what the handler registered for a channel does when awaited: none is
\* registered, it returns True or False, or it raises
HandlerKinds == {"none", "ok", "false", "raise"}

\* the delivery with the handler's exception leaving send()
DeliverUncaught(channel, handler) ==
    CASE handler = "ok" -> [success |-> TRUE, error |-> "", raised |-> FALSE]
      [] handler = "false" -> [success |-> FALSE, error |-> "", raised |-> FALSE]
      [] handler = "raise" -> [success |-> FALSE, error |-> "exception", raised |-> TRUE]
      [] handler = "none" /\ channel = "in_app" -> [success |-> TRUE, error |-> "", raised |-> FALSE]
      [] OTHER -> [success |-> FALSE, error |-> "No handler registered", raised |-> FALSE]

\* NotificationService.send, one channel (lines 109-122): the handler's
\* exception is caught and becomes the channel's result
Deliver(channel, handler) ==
    CASE handler = "ok" -> [success |-> TRUE, error |-> "", raised |-> FALSE]
      [] handler = "false" -> [success |-> FALSE, error |-> "", raised |-> FALSE]
      [] handler = "raise" -> [success |-> FALSE, error |-> "exception", raised |-> FALSE]
      [] handler = "none" /\ channel = "in_app" -> [success |-> TRUE, error |-> "", raised |-> FALSE]
      [] OTHER -> [success |-> FALSE, error |-> "No handler registered", raised |-> FALSE]

\* lines 147-156: the notification, when the decision is FLAG or BLOCK and a
\* user id was given; an exception leaving send() would leave process_transaction
SendNotification ==
    /\ app.pc = "notify"
    /\ IF response.decision \in {"FLAG", "BLOCK"} /\ app.user_id # ""
         THEN \E handlers \in [NotificationChannels(response.risk_level) -> HandlerKinds] :
                LET results == [c \in DOMAIN handlers |-> Deliver(c, handlers[c])]
                IN  app' = [app EXCEPT
                              !.pc = IF \E c \in DOMAIN results : results[c].raised
                                       THEN "raised" ELSE "return",
                              !.delivery = results,
                              !.stored = IF handlers["in_app"] = "none" THEN @ + 1 ELSE @]
         ELSE app' = [app EXCEPT !.pc = "return"]
    /\ UNCHANGED <<router, registry, protocol, ws, svc>>
    /\ UNCHANGED <<tools, reward_config, workflow, request, pc, current_phase, phases, intake,
                   analysis, decision, explanation, invoked, batch_results, response,
                   settings, calc>>

\* lines 158-167: the dict returned to the caller
AppReturn ==
    /\ app.pc = "return"
    /\ app' = [app EXCEPT !.pc = "done",
                          !.returned = [result |-> response, ui_response |-> app.ui_response]]
    /\ UNCHANGED <<router, registry, protocol, ws, svc>>
    /\ UNCHANGED <<tools, reward_config, workflow, request, pc, current_phase, phases, intake,
                   analysis, decision, explanation, invoked, batch_results, response,
                   settings, calc>>

\* process_transaction is called on a transaction with an id and an amount,
\* over tool doubles, with or without a user id; its request dict has no
\* "transactions" entry
InitApp ==
    /\ tools = "double"
    /\ reward_config \in RewardConfigs
    /\ InitRun({r \in BatchRequests : r.transactions = 0})
    /\ workflow # "batch" => (request.transaction.present /\ request.transaction.id = "T1"
                               /\ request.transaction.amount = 100)
    /\ app \in [pc : {"called"}, user_id : {"", "U1"}, ui_response : {None},
                delivery : {None}, stored : {0}, returned : {None}]
    /\ settings = NoSettings
    /\ calc = NoCalc
    /\ router = NoComponent /\ registry = NoComponent /\ protocol = NoComponent /\ ws = NoComponent /\ svc = NoComponent

\* the steps of process() but the turn of the batch loop, the batch being empty
NextApp ==
    \/ Process
    \/ IntakePhase
    \/ AnalyzeBegin
    \/ DocumentAnalysis
    \/ TransactionScoring
    \/ PatternDetection
    \/ IdentityVerification
    \/ NetworkAnalysis
    \/ DecidePhase
    \/ ExplainPhase
    \/ InvestigationReport
    \/ QuickWorkflow
    \/ BatchReturn
    \/ BuildUIResponse
    \/ SendNotification
    \/ AppReturn

SpecApp == InitApp /\ [][NextApp]_vars

----------------------------------------------------------------------------
(* The cost model's functions (config/rewards.py, rl/reward.py and           *)
(* TransactionAnalystAgent._calculate_expected_reward) applied to a          *)
(* probability.  A probability and a threshold are in 1/10000, an expected   *)
(* reward in 1/10000 of a reward unit.                                       *)

\* probabilities of [0, 1]: the ends, each cutpoint and threshold with its neighbours
Probabilities ==
    {0, 1, 500, 908, 909, 910, 1999, 2000, 2001, 2999, 3000, 3001, 3999, 4000, 4001,
     5000, 6999, 7000, 7001, 9999, 10000}

\* a cost matrix as TP, TN, FP, FN: the shipped one and two others
RewardMatrices ==
    {cost_matrix_applied, [TP |-> 20, TN |-> 2, FP |-> -1, FN |-> -100],
     [TP |-> 3, TN |-> 7, FP |-> -11, FN |-> -13]}

\* RewardConfig with the matrix m
RewardConfigOf(m) ==
    [true_positive_reward |-> m.TP, true_negative_reward |-> m.TN,
     false_positive_penalty |-> m.FP, false_negative_penalty |-> m.FN]

\* the calculator's configuration with the penalties exchanged
CostSensitiveRewardExchanged(cfg) ==
    [true_positive |-> cfg.true_positive_reward,
     true_negative |-> cfg.true_negative_reward,
     false_positive |-> cfg.false_negative_penalty,
     false_negative |-> cfg.false_positive_penalty]

\* RewardCalculator.__init__: CostSensitiveReward built from the reward config
CostSensitiveRewardOf(cfg) ==
    [true_positive |-> cfg.true_positive_reward,
     true_negative |-> cfg.true_negative_reward,
     false_positive |-> cfg.false_positive_penalty,
     false_negative |-> cfg.false_negative_penalty]

\* TransactionAnalystAgent._calculate_expected_reward
_calculate_expected_reward(cfg, fraud_probability, flag_decision) ==
    LET p_fraud == fraud_probability
        p_legit == 10000 - fraud_probability
    IN  IF flag_decision
          THEN p_fraud * cfg.true_positive_reward + p_legit * cfg.false_positive_penalty
          ELSE p_fraud * cfg.false_negative_penalty + p_legit * cfg.true_negative_reward

\* RewardCalculator.calculate_expected_reward
calculate_expected_reward(config, fraud_probability, flag_decision) ==
    LET p_fraud == fraud_probability
        p_legit == 10000 - fraud_probability
    IN  IF flag_decision
          THEN p_fraud * config.true_positive + p_legit * config.false_positive
          ELSE p_fraud * config.false_negative + p_legit * config.true_negative

\* RewardCalculator.calculate_optimal_threshold, in 1/10000 (rounded down)
calculate_optimal_threshold(config) ==
    (Abs(config.false_positive) * 10000)
        \div (Abs(config.false_positive) + Abs(config.false_negative))

\* classify_risk(p)
ClassifyRisk ==
    /\ calc.pc = "ready"
    /\ "classify_risk" \notin calc.called
    /\ calc' = [calc EXCEPT !.called = @ \cup {"classify_risk"}, !.risk_level = classify_risk(calc.p)]
    /\ UNCHANGED <<router, registry, protocol, ws, svc>>
    /\ UNCHANGED <<tools, reward_config, workflow, request, pc, current_phase, phases, intake,
                   analysis, decision, explanation, invoked, batch_results, response,
                   app, settings>>

\* should_flag(p, threshold)
ShouldFlag ==
    /\ calc.pc = "ready"
    /\ "should_flag" \notin calc.called
    /\ calc' = [calc EXCEPT !.called = @ \cup {"should_flag"}, !.flagged = should_flag_at(calc.p, calc.threshold)]
    /\ UNCHANGED <<router, registry, protocol, ws, svc>>
    /\ UNCHANGED <<tools, reward_config, workflow, request, pc, current_phase, phases, intake,
                   analysis, decision, explanation, invoked, batch_results, response,
                   app, settings>>

\* the agent's expected reward of the decision flag_decision
AgentExpectedReward ==
    /\ calc.pc = "ready"
    /\ "_calculate_expected_reward" \notin calc.called
    /\ calc' = [calc EXCEPT !.called = @ \cup {"_calculate_expected_reward"}, !.agent_reward =
                   _calculate_expected_reward(RewardConfigOf(calc.matrix), calc.p, calc.flag_decision)]
    /\ UNCHANGED <<router, registry, protocol, ws, svc>>
    /\ UNCHANGED <<tools, reward_config, workflow, request, pc, current_phase, phases, intake,
                   analysis, decision, explanation, invoked, batch_results, response,
                   app, settings>>

\* the calculator, built from the same reward config: its expected reward
CalculatorExpectedReward ==
    /\ calc.pc = "ready"
    /\ "calculate_expected_reward" \notin calc.called
    /\ calc' = [calc EXCEPT !.called = @ \cup {"calculate_expected_reward"}, !.calculator_reward =
                   calculate_expected_reward(CostSensitiveRewardOf(RewardConfigOf(calc.matrix)),
                                             calc.p, calc.flag_decision)]
    /\ UNCHANGED <<router, registry, protocol, ws, svc>>
    /\ UNCHANGED <<tools, reward_config, workflow, request, pc, current_phase, phases, intake,
                   analysis, decision, explanation, invoked, batch_results, response,
                   app, settings>>

\* a probability, a threshold, a cost matrix and a flag decision; no run
InitCost ==
    /\ tools = "stub"
    /\ reward_config = ShippedRewardConfig
    /\ workflow = "standard"
    /\ request = CHOOSE r \in Requests : ~r.transaction.present /\ r.documents = 0
                                         /\ ~r.beneficiary.present
    /\ pc = "idle"
    /\ current_phase = "intake"
    /\ phases = <<>>
    /\ intake = None
    /\ analysis = <<>>
    /\ decision = NoDecision
    /\ explanation = None
    /\ invoked = {}
    /\ batch_results = <<>>
    /\ response = NoResponse
    /\ app = NoApp
    /\ settings = NoSettings
    /\ router = NoComponent /\ registry = NoComponent /\ protocol = NoComponent /\ ws = NoComponent /\ svc = NoComponent
    /\ calc \in [pc : {"ready"}, p : Probabilities,
                 threshold : {DERIVED_THRESHOLD, DEFAULT_FLAG_THRESHOLD, 5000},
                 matrix : RewardMatrices, flag_decision : BOOLEAN,
                 called : {{}}, risk_level : {""}, flagged : {FALSE},
                 agent_reward : {0}, calculator_reward : {0}]

NextCost ==
    \/ ClassifyRisk
    \/ ShouldFlag
    \/ AgentExpectedReward
    \/ CalculatorExpectedReward

SpecCost == InitCost /\ [][NextCost]_vars

----------------------------------------------------------------------------
(* fraudshield/a2a/router.py: MessageRouter.queue_message and the coroutine  *)
(* process_queue.  A message is known by its number; routing it is the       *)
(* await of route_message, during which queue_message can be called.         *)

MaxMessages == 2
\* routings of one message after which the model stops following it
MaxRoutes == 5

\* PendingMessage.max_retries
MAX_RETRIES == 3
\* the priority_boost of the rule of process_fraud_detection
PRIORITY_BOOST == 10

Messages == 1..MaxMessages
TaskTypes == {"score_transaction", "process_fraud_detection"}
Priorities == {0, 1}

\* what route_message returns: a response COMPLETED, a response FAILED (no
\* rule, no agent, no handler, or the handler raised), or None from a handler
RouteOutcomes == {"COMPLETED", "FAILED", "None"}

\* routing_rules.get(task_type): the boost of the rule, 0 without a rule
priority_boost(task_type) ==
    IF task_type = "process_fraud_detection" THEN PRIORITY_BOOST ELSE 0

\* PendingMessage(message, priority): retry_count 0, max_retries 3
PendingMessage(message, task_type, priority, arrival) ==
    [message |-> message, task_type |-> task_type, priority |-> priority,
     retry_count |-> 0, max_retries |-> MAX_RETRIES, arrival |-> arrival]

\* the insertion before the first entry of priority greater or equal
queue_message_before_equal(message_queue, message, task_type, priority, arrival) ==
    LET p == priority + priority_boost(task_type)
        pending == PendingMessage(message, task_type, p, arrival)
        before == {i \in 1..Len(message_queue) : p >= message_queue[i].priority}
    IN  IF before = {} THEN Append(message_queue, pending)
        ELSE LET i == CHOOSE k \in before : \A l \in before : k <= l
             IN  SubSeq(message_queue, 1, i - 1) \o <<pending>>
                 \o SubSeq(message_queue, i, Len(message_queue))

\* queue_message: the rule's boost added, a new PendingMessage inserted before
\* the first entry of lower priority, appended if there is none
queue_message(message_queue, message, task_type, priority, arrival) ==
    LET p == priority + priority_boost(task_type)
        pending == PendingMessage(message, task_type, p, arrival)
        before == {i \in 1..Len(message_queue) : p > message_queue[i].priority}
    IN  IF before = {} THEN Append(message_queue, pending)
        ELSE LET i == CHOOSE k \in before : \A l \in before : k <= l
             IN  SubSeq(message_queue, 1, i - 1) \o <<pending>>
                 \o SubSeq(message_queue, i, Len(message_queue))

\* the top of the while loop: return on an empty queue, else pop(0) and
\* start route_message
LoopTop(r) ==
    IF r.message_queue = <<>>
      THEN [r EXCEPT !.pc = "returned", !.pending = <<>>]
      ELSE [r EXCEPT !.pc = "routing",
                     !.pending = <<Head(r.message_queue)>>,
                     !.message_queue = Tail(r.message_queue),
                     !.routed[Head(r.message_queue).message] = @ + 1]

\* a caller queues a message it has not queued before
QueueMessage ==
    /\ router.pc \in {"ready", "routing", "returned"}
    /\ \E m \in Messages \ router.queued, t \in TaskTypes, p \in Priorities :
         router' = [router EXCEPT
                       !.message_queue = queue_message(@, m, t, p, router.arrivals + 1),
                       !.arrivals = @ + 1,
                       !.queued = @ \cup {m}]
    /\ UNCHANGED <<registry, protocol, ws, svc>>
    /\ UNCHANGED <<tools, reward_config, workflow, request, pc, current_phase, phases, intake,
                   analysis, decision, explanation, invoked, batch_results, response,
                   app, settings, calc>>

\* process_queue is called
ProcessQueue ==
    /\ router.pc \in {"ready", "returned"}
    /\ router.message_queue # <<>> => router.routed[Head(router.message_queue).message] < MaxRoutes
    /\ router' = LoopTop([router EXCEPT !.responses = 0])
    /\ UNCHANGED <<registry, protocol, ws, svc>>
    /\ UNCHANGED <<tools, reward_config, workflow, request, pc, current_phase, phases, intake,
                   analysis, decision, explanation, invoked, batch_results, response,
                   app, settings, calc>>

\* route_message returns: lines 286-297, then the next iteration
RouteReturns ==
    /\ router.pc = "routing"
    /\ \E outcome \in RouteOutcomes :
         LET pending == router.pending[1]
             retry == outcome = "FAILED" /\ pending.retry_count < pending.max_retries
             requeued ==
                 IF retry
                   THEN [router EXCEPT
                            !.message_queue =
                                queue_message(@, pending.message, pending.task_type,
                                              pending.priority - 1, router.arrivals + 1),
                            !.arrivals = @ + 1,
                            !.retried = <<[message |-> pending.message,
                                           failed |-> pending.priority]>>]
                   ELSE [router EXCEPT !.retried = <<>>]
             answered ==
                 IF outcome # "None" THEN [requeued EXCEPT !.responses = @ + 1] ELSE requeued
         IN  /\ answered.message_queue # <<>> =>
                   router.routed[Head(answered.message_queue).message] < MaxRoutes
             /\ router' = LoopTop(answered)
    /\ UNCHANGED <<registry, protocol, ws, svc>>
    /\ UNCHANGED <<tools, reward_config, workflow, request, pc, current_phase, phases, intake,
                   analysis, decision, explanation, invoked, batch_results, response,
                   app, settings, calc>>

\* a router with an empty queue; no orchestrator run
InitRouter ==
    /\ tools = "stub"
    /\ reward_config = ShippedRewardConfig
    /\ workflow = "standard"
    /\ request = CHOOSE r \in Requests : ~r.transaction.present /\ r.documents = 0
                                         /\ ~r.beneficiary.present
    /\ pc = "idle"
    /\ current_phase = "intake"
    /\ phases = <<>>
    /\ intake = None
    /\ analysis = <<>>
    /\ decision = NoDecision
    /\ explanation = None
    /\ invoked = {}
    /\ batch_results = <<>>
    /\ response = NoResponse
    /\ app = NoApp /\ settings = NoSettings /\ calc = NoCalc
    /\ registry = NoComponent /\ protocol = NoComponent /\ ws = NoComponent /\ svc = NoComponent
    /\ router = [pc |-> "ready", message_queue |-> <<>>, pending |-> <<>>,
                 routed |-> [m \in Messages |-> 0], queued |-> {}, arrivals |-> 0,
                 responses |-> 0, retried |-> <<>>]

NextRouter ==
    \/ QueueMessage
    \/ ProcessQueue
    \/ RouteReturns

SpecRouter == InitRouter /\ [][NextRouter]_vars

----------------------------------------------------------------------------
(* fraudshield/a2a/registry.py: AgentRegistry.  agents is a dict by agent    *)
(* id, task_to_agents a dict of lists of agent ids; a task with no list is   *)
(* a task with the empty list.  The age of a heartbeat is "stale" once it is *)
(* older than max_age_seconds.                                               *)

AgentIds == {"a1", "a2"}
Tasks == {"score_transaction", "verify_identity"}

\* supported_tasks of a registration: a list, possibly with a repeated task
TaskLists ==
    {<<>>, <<"score_transaction">>, <<"verify_identity">>,
     <<"score_transaction", "verify_identity">>,
     <<"score_transaction", "score_transaction">>}

AgentStatuses == {"available", "busy"}

\* the elements of a list
Elems(list) == {list[i] : i \in 1..Len(list)}

\* [a for a in list if a != agent_id]
Without(list, agent_id) == SelectSeq(list, LAMBDA a : a # agent_id)

\* the task lists of lines 117-121, after the loop over supported_tasks[from..]
RECURSIVE AddToTasks(_, _, _, _)
AddToTasks(task_to_agents, agent_id, supported_tasks, from) ==
    IF from > Len(supported_tasks) THEN task_to_agents
    ELSE LET task == supported_tasks[from]
             added == IF agent_id \in Elems(task_to_agents[task])
                        THEN task_to_agents
                        ELSE [task_to_agents EXCEPT ![task] = Append(@, agent_id)]
         IN  AddToTasks(added, agent_id, supported_tasks, from + 1)

\* register(): the AgentInfo stored under agent_id, the id appended to the
\* list of each supported task that does not hold it
register(r, agent_id, supported_tasks) ==
    [r EXCEPT
        !.agents[agent_id] = [present |-> TRUE, supported_tasks |-> supported_tasks,
                              status |-> "available", stale |-> FALSE],
        !.task_to_agents = AddToTasks(r.task_to_agents, agent_id, supported_tasks, 1)]

NoAgent == [present |-> FALSE, supported_tasks |-> <<>>, status |-> "", stale |-> FALSE]

\* deregister(): False for an unknown id; else the id removed from the lists
\* of the tasks of its AgentInfo, and the AgentInfo deleted
deregister(r, agent_id) ==
    IF ~r.agents[agent_id].present THEN r
    ELSE [r EXCEPT
            !.task_to_agents =
                [t \in Tasks |->
                    IF t \in Elems(r.agents[agent_id].supported_tasks)
                      THEN Without(r.task_to_agents[t], agent_id)
                      ELSE r.task_to_agents[t]],
            !.agents[agent_id] = NoAgent]

\* deregister() of each id of a set, one after the other
RECURSIVE DeregisterAll(_, _)
DeregisterAll(r, ids) ==
    IF ids = {} THEN r
    ELSE LET a == CHOOSE x \in ids : TRUE
         IN  DeregisterAll(deregister(r, a), ids \ {a})

Register ==
    /\ registry.pc = "ready"
    /\ \E a \in AgentIds, tasks \in TaskLists :
         registry' = register(registry, a, tasks)
    /\ UNCHANGED <<router, protocol, ws, svc>>
    /\ UNCHANGED <<tools, reward_config, workflow, request, pc, current_phase, phases, intake,
                   analysis, decision, explanation, invoked, batch_results, response,
                   app, settings, calc>>

Deregister ==
    /\ registry.pc = "ready"
    /\ \E a \in AgentIds : registry' = deregister(registry, a)
    /\ UNCHANGED <<router, protocol, ws, svc>>
    /\ UNCHANGED <<tools, reward_config, workflow, request, pc, current_phase, phases, intake,
                   analysis, decision, explanation, invoked, batch_results, response,
                   app, settings, calc>>

\* update_status(): False for an unknown id
UpdateStatus ==
    /\ registry.pc = "ready"
    /\ \E a \in AgentIds, status \in AgentStatuses :
         registry' = IF registry.agents[a].present
                       THEN [registry EXCEPT !.agents[a].status = status]
                       ELSE registry
    /\ UNCHANGED <<router, protocol, ws, svc>>
    /\ UNCHANGED <<tools, reward_config, workflow, request, pc, current_phase, phases, intake,
                   analysis, decision, explanation, invoked, batch_results, response,
                   app, settings, calc>>

\* heartbeat(): False for an unknown id; else last_heartbeat is now
Heartbeat ==
    /\ registry.pc = "ready"
    /\ \E a \in AgentIds :
         registry' = IF registry.agents[a].present
                       THEN [registry EXCEPT !.agents[a].stale = FALSE]
                       ELSE registry
    /\ UNCHANGED <<router, protocol, ws, svc>>
    /\ UNCHANGED <<tools, reward_config, workflow, request, pc, current_phase, phases, intake,
                   analysis, decision, explanation, invoked, batch_results, response,
                   app, settings, calc>>

\* more than max_age_seconds pass with no call
TimePasses ==
    /\ registry.pc = "ready"
    /\ registry' = [registry EXCEPT
                       !.agents = [a \in AgentIds |->
                                      IF registry.agents[a].present
                                        THEN [registry.agents[a] EXCEPT !.stale = TRUE]
                                        ELSE registry.agents[a]]]
    /\ UNCHANGED <<router, protocol, ws, svc>>
    /\ UNCHANGED <<tools, reward_config, workflow, request, pc, current_phase, phases, intake,
                   analysis, decision, explanation, invoked, batch_results, response,
                   app, settings, calc>>

\* cleanup_stale_agents(): every agent with an old heartbeat is deregistered
CleanupStaleAgents ==
    /\ registry.pc = "ready"
    /\ registry' = DeregisterAll(registry, {a \in AgentIds : registry.agents[a].present
                                                             /\ registry.agents[a].stale})
    /\ UNCHANGED <<router, protocol, ws, svc>>
    /\ UNCHANGED <<tools, reward_config, workflow, request, pc, current_phase, phases, intake,
                   analysis, decision, explanation, invoked, batch_results, response,
                   app, settings, calc>>

\* AgentRegistry(): no agent, no task list; no orchestrator run
InitRegistry ==
    /\ tools = "stub"
    /\ reward_config = ShippedRewardConfig
    /\ workflow = "standard"
    /\ request = CHOOSE r \in Requests : ~r.transaction.present /\ r.documents = 0
                                         /\ ~r.beneficiary.present
    /\ pc = "idle"
    /\ current_phase = "intake"
    /\ phases = <<>>
    /\ intake = None
    /\ analysis = <<>>
    /\ decision = NoDecision
    /\ explanation = None
    /\ invoked = {}
    /\ batch_results = <<>>
    /\ response = NoResponse
    /\ app = NoApp /\ settings = NoSettings /\ calc = NoCalc
    /\ router = NoComponent /\ protocol = NoComponent /\ ws = NoComponent /\ svc = NoComponent
    /\ registry = [pc |-> "ready", agents |-> [a \in AgentIds |-> NoAgent],
                   task_to_agents |-> [t \in Tasks |-> <<>>]]

NextRegistry ==
    \/ Register
    \/ Deregister
    \/ UpdateStatus
    \/ Heartbeat
    \/ TimePasses
    \/ CleanupStaleAgents

SpecRegistry == InitRegistry /\ [][NextRegistry]_vars

----------------------------------------------------------------------------
(* fraudshield/a2a/protocol.py: A2AProtocol.  A message id is a uuid4 made   *)
(* when the message is built: an id no message had before, here the next     *)
(* number.  pending_tasks is the set of its keys; completed_tasks maps an id *)
(* to the status of the response stored, "" for an id that is not a key.     *)

MaxTasks == 3

MessageIds == 1..MaxTasks
\* an A2AResponse: any correlation id, of a request made or not
Responses == [correlation_id : MessageIds, status : {"COMPLETED", "FAILED"}]

\* process_response that stores the response and leaves the request pending
process_response_keeps_pending(p, resp) ==
    LET correlation_id == resp.correlation_id
    IN  IF correlation_id \in p.pending_tasks
          THEN [p EXCEPT !.completed_tasks[correlation_id] = resp.status,
                         !.returned = TRUE, !.response = <<resp>>, !.calls = 1 - @]
          ELSE [p EXCEPT !.returned = FALSE, !.response = <<resp>>, !.calls = 1 - @]

\* process_response: a pending correlation id is deleted from pending_tasks,
\* the response stored in completed_tasks, True returned; else False
process_response(p, resp) ==
    LET correlation_id == resp.correlation_id
    IN  IF correlation_id \in p.pending_tasks
          THEN [p EXCEPT !.pending_tasks = @ \ {correlation_id},
                         !.completed_tasks[correlation_id] = resp.status,
                         !.returned = TRUE, !.response = <<resp>>, !.calls = 1 - @]
          ELSE [p EXCEPT !.returned = FALSE, !.response = <<resp>>, !.calls = 1 - @]

\* create_task_request: a message with a new id, tracked in pending_tasks
CreateTaskRequest ==
    /\ protocol.pc = "ready"
    /\ protocol.created < MaxTasks
    /\ protocol' = [protocol EXCEPT !.created = @ + 1,
                                    !.pending_tasks = @ \cup {protocol.created + 1}]
    /\ UNCHANGED <<router, registry, ws, svc>>
    /\ UNCHANGED <<tools, reward_config, workflow, request, pc, current_phase, phases, intake,
                   analysis, decision, explanation, invoked, batch_results, response,
                   app, settings, calc>>

ProcessResponse ==
    /\ protocol.pc = "ready"
    /\ \E r \in Responses : protocol' = process_response(protocol, r)
    /\ UNCHANGED <<router, registry, ws, svc>>
    /\ UNCHANGED <<tools, reward_config, workflow, request, pc, current_phase, phases, intake,
                   analysis, decision, explanation, invoked, batch_results, response,
                   app, settings, calc>>

\* A2AProtocol(agent_id, agent_name): both dicts empty; no orchestrator run
InitProtocol ==
    /\ tools = "stub"
    /\ reward_config = ShippedRewardConfig
    /\ workflow = "standard"
    /\ request = CHOOSE r \in Requests : ~r.transaction.present /\ r.documents = 0
                                         /\ ~r.beneficiary.present
    /\ pc = "idle"
    /\ current_phase = "intake"
    /\ phases = <<>>
    /\ intake = None
    /\ analysis = <<>>
    /\ decision = NoDecision
    /\ explanation = None
    /\ invoked = {}
    /\ batch_results = <<>>
    /\ response = NoResponse
    /\ app = NoApp /\ settings = NoSettings /\ calc = NoCalc
    /\ router = NoComponent /\ registry = NoComponent /\ ws = NoComponent /\ svc = NoComponent
    /\ protocol = [pc |-> "ready", created |-> 0, pending_tasks |-> {},
                   completed_tasks |-> [m \in MessageIds |-> ""],
                   returned |-> FALSE, response |-> <<>>, calls |-> 0]

NextProtocol ==
    \/ CreateTaskRequest
    \/ ProcessResponse

SpecProtocol == InitProtocol /\ [][NextProtocol]_vars

----------------------------------------------------------------------------
(* SettingsService under concurrent calls.  Each call is a coroutine of the  *)
(* one event loop; it gives way at its awaits: the acquisition of _lock and  *)
(* the aiofiles operations.  update_settings logs its audit entry inside     *)
(* the lock; import_settings and reset_to_defaults log theirs before they    *)
(* take it.  _log_audit reads the audit file, appends, opens the file for    *)
(* writing (which empties it) and writes.                                    *)

MaxCalls == 2

\* the entries _log_audit keeps
AUDIT_RETENTION == 1000

Calls == 1..MaxCalls
CallOps == {"update", "import", "reset"}

\* valid cost matrices a call may carry
CallMatrices == {DefaultCostMatrix, [TP |-> 10, TN |-> 1, FP |-> -5, FN |-> -5]}

\* audit_log[-1000:]
Retained(audit_log) ==
    IF Len(audit_log) > AUDIT_RETENTION
      THEN SubSeq(audit_log, Len(audit_log) - AUDIT_RETENTION + 1, Len(audit_log))
      ELSE audit_log

\* the audit entry of a call: its uuid4 id is the call's own
AuditEntry(c) == [id |-> c, action |-> svc.calls[c].op]

\* what update_settings, import_settings or reset_to_defaults leaves in the
\* cache and the settings file
Written(c) == IF svc.calls[c].op = "reset" THEN DefaultCostMatrix ELSE svc.calls[c].m

\* async with self._lock
AcquireLock ==
    /\ svc.pc = "ready"
    /\ svc.lock = 0
    /\ \E c \in Calls :
         /\ \/ svc.calls[c].op = "update" /\ svc.calls[c].pc = "start"
            \/ svc.calls[c].op # "update" /\ svc.calls[c].pc = "logged"
         /\ svc' = [svc EXCEPT !.lock = c, !.calls[c].pc = "locked"]
    /\ UNCHANGED <<router, registry, protocol, ws>>
    /\ UNCHANGED <<tools, reward_config, workflow, request, pc, current_phase, phases, intake,
                   analysis, decision, explanation, invoked, batch_results, response,
                   app, settings, calc>>

\* update_settings, lines 87-137: current is the cached object, changed in
\* place, then saved
UpdateSave ==
    /\ svc.pc = "ready"
    /\ \E c \in Calls :
         /\ svc.calls[c].op = "update" /\ svc.calls[c].pc = "locked"
         /\ svc' = [svc EXCEPT !.cache = Written(c), !.file = Written(c),
                               !.calls[c].pc = "saved"]
    /\ UNCHANGED <<router, registry, protocol, ws>>
    /\ UNCHANGED <<tools, reward_config, workflow, request, pc, current_phase, phases, intake,
                   analysis, decision, explanation, invoked, batch_results, response,
                   app, settings, calc>>

\* _log_audit, lines 566-574: the audit file read; an empty file does not
\* parse and reads as no entry
AuditRead ==
    /\ svc.pc = "ready"
    /\ \E c \in Calls :
         /\ \/ svc.calls[c].op = "update" /\ svc.calls[c].pc = "saved"
            \/ svc.calls[c].op # "update" /\ svc.calls[c].pc = "start"
         /\ svc' = [svc EXCEPT !.calls[c].pc = "read", !.calls[c].audit_log = svc.audit]
    /\ UNCHANGED <<router, registry, protocol, ws>>
    /\ UNCHANGED <<tools, reward_config, workflow, request, pc, current_phase, phases, intake,
                   analysis, decision, explanation, invoked, batch_results, response,
                   app, settings, calc>>

\* _log_audit, line 582: aiofiles.open(audit_file, 'w') empties the file
AuditOpen ==
    /\ svc.pc = "ready"
    /\ \E c \in Calls :
         /\ svc.calls[c].pc = "read"
         /\ svc' = [svc EXCEPT !.calls[c].pc = "opened", !.audit = <<>>]
    /\ UNCHANGED <<router, registry, protocol, ws>>
    /\ UNCHANGED <<tools, reward_config, workflow, request, pc, current_phase, phases, intake,
                   analysis, decision, explanation, invoked, batch_results, response,
                   app, settings, calc>>

\* _log_audit, line 583: what was read, with the new entry, written; then
\* update_settings sets the cache and leaves the lock
AuditWrite ==
    /\ svc.pc = "ready"
    /\ \E c \in Calls :
         /\ svc.calls[c].pc = "opened"
         /\ svc' = [svc EXCEPT
                       !.audit = Retained(Append(svc.calls[c].audit_log, AuditEntry(c))),
                       !.calls[c].pc = IF svc.calls[c].op = "update" THEN "done" ELSE "logged",
                       !.lock = IF svc.calls[c].op = "update" THEN 0 ELSE @]
    /\ UNCHANGED <<router, registry, protocol, ws>>
    /\ UNCHANGED <<tools, reward_config, workflow, request, pc, current_phase, phases, intake,
                   analysis, decision, explanation, invoked, batch_results, response,
                   app, settings, calc>>

\* import_settings, lines 435-437, and reset_to_defaults, lines 481-486: the
\* settings saved and cached, the lock left
SaveAndCache ==
    /\ svc.pc = "ready"
    /\ \E c \in Calls :
         /\ svc.calls[c].op # "update" /\ svc.calls[c].pc = "locked"
         /\ svc' = [svc EXCEPT !.cache = Written(c), !.file = Written(c),
                               !.calls[c].pc = "done", !.lock = 0]
    /\ UNCHANGED <<router, registry, protocol, ws>>
    /\ UNCHANGED <<tools, reward_config, workflow, request, pc, current_phase, phases, intake,
                   analysis, decision, explanation, invoked, batch_results, response,
                   app, settings, calc>>

\* a service with its settings loaded and an empty audit file, and the calls
\* that have been made; no orchestrator run
InitService ==
    /\ tools = "stub"
    /\ reward_config = ShippedRewardConfig
    /\ workflow = "standard"
    /\ request = CHOOSE r \in Requests : ~r.transaction.present /\ r.documents = 0
                                         /\ ~r.beneficiary.present
    /\ pc = "idle"
    /\ current_phase = "intake"
    /\ phases = <<>>
    /\ intake = None
    /\ analysis = <<>>
    /\ decision = NoDecision
    /\ explanation = None
    /\ invoked = {}
    /\ batch_results = <<>>
    /\ response = NoResponse
    /\ app = NoApp /\ settings = NoSettings /\ calc = NoCalc
    /\ router = NoComponent /\ registry = NoComponent /\ protocol = NoComponent /\ ws = NoComponent
    /\ \E calls \in [Calls -> [op : CallOps, m : CallMatrices, pc : {"start"},
                               audit_log : {<<>>}]] :
         svc = [pc |-> "ready", lock |-> 0, cache |-> DefaultCostMatrix,
                file |-> DefaultCostMatrix, audit |-> <<>>, calls |-> calls]

NextService ==
    \/ AcquireLock
    \/ UpdateSave
    \/ AuditRead
    \/ AuditOpen
    \/ AuditWrite
    \/ SaveAndCache

SpecService == InitService /\ [][NextService]_vars

----------------------------------------------------------------------------
(* backend/services/websocket_manager.py: WebSocketManager.  The dict        *)
(* active_connections is its array of entries in insertion order: a deleted  *)
(* key leaves an empty entry, a new key goes to the end, a key already       *)
(* there keeps its entry.  The array is rebuilt only when its free slots run *)
(* out, after the fifth insertion: MaxInserts stays at or below 5.  The      *)
(* iterator of broadcast's for loop keeps the size the dict had when the     *)
(* loop began (used), its position, and the number of items left (len).      *)

MaxInserts == 4

Clients == {"c1", "c2", "c3"}

\* the entry of a deleted key
Deleted == ""

\* the keys of the dict
Connected(w) == {w.entries[i] : i \in 1..Len(w.entries)} \ {Deleted}

NoBroadcast ==
    [state |-> "idle", used |-> 0, pos |-> 0, len |-> 0, sent |-> {}, stayed |-> {}]

\* one step of the dict item iterator: RuntimeError when the dict's size is
\* not the one it began with; the end when no entry is left; RuntimeError
\* when an entry is found after all the items were given; else the entry
IterNext(w) ==
    IF Cardinality(Connected(w)) # w.bc.used THEN [w EXCEPT !.bc.state = "raised"]
    ELSE LET later == {i \in (w.bc.pos + 1)..Len(w.entries) : w.entries[i] # Deleted}
         IN  IF later = {} THEN [w EXCEPT !.bc.state = "completed"]
             ELSE IF w.bc.len = 0 THEN [w EXCEPT !.bc.state = "raised"]
             ELSE LET i == CHOOSE k \in later : \A l \in later : k <= l
                  IN  [w EXCEPT !.bc.state = "sending", !.bc.pos = i, !.bc.len = @ - 1]

\* connect(): after accept, active_connections[client_id] = websocket
Connect ==
    /\ ws.pc = "ready"
    /\ \E c \in Clients :
         IF c \in Connected(ws)
           THEN ws' = [ws EXCEPT !.bc.stayed = @ \ {c}]
           ELSE /\ ws.inserts < MaxInserts
                /\ ws' = [ws EXCEPT !.entries = Append(@, c), !.inserts = @ + 1]
    /\ UNCHANGED <<router, registry, protocol, svc>>
    /\ UNCHANGED <<tools, reward_config, workflow, request, pc, current_phase, phases, intake,
                   analysis, decision, explanation, invoked, batch_results, response,
                   app, settings, calc>>

\* disconnect(): the key deleted if it is there
Disconnect ==
    /\ ws.pc = "ready"
    /\ \E c \in Connected(ws) :
         ws' = [ws EXCEPT
                   !.entries = [i \in 1..Len(@) |-> IF @[i] = c THEN Deleted ELSE @[i]],
                   !.bc.stayed = @ \ {c}]
    /\ UNCHANGED <<router, registry, protocol, svc>>
    /\ UNCHANGED <<tools, reward_config, workflow, request, pc, current_phase, phases, intake,
                   analysis, decision, explanation, invoked, batch_results, response,
                   app, settings, calc>>

\* broadcast() is called: the iterator made, its first step taken
Broadcast ==
    /\ ws.pc = "ready"
    /\ ws.bc.state \in {"idle", "completed", "raised"}
    /\ ws' = IterNext([ws EXCEPT !.bc = [NoBroadcast EXCEPT
                                            !.used = Cardinality(Connected(ws)),
                                            !.len = Cardinality(Connected(ws)),
                                            !.stayed = Connected(ws)]])
    /\ UNCHANGED <<router, registry, protocol, svc>>
    /\ UNCHANGED <<tools, reward_config, workflow, request, pc, current_phase, phases, intake,
                   analysis, decision, explanation, invoked, batch_results, response,
                   app, settings, calc>>

\* await websocket.send_text(...) is over, having sent or raised (which the
\* loop body catches); the iterator's next step
SendTextReturns ==
    /\ ws.pc = "ready"
    /\ ws.bc.state = "sending"
    /\ ws' = IterNext([ws EXCEPT !.bc.sent = @ \cup ({ws.entries[ws.bc.pos]} \ {Deleted})])
    /\ UNCHANGED <<router, registry, protocol, svc>>
    /\ UNCHANGED <<tools, reward_config, workflow, request, pc, current_phase, phases, intake,
                   analysis, decision, explanation, invoked, batch_results, response,
                   app, settings, calc>>

\* WebSocketManager(): no connection; no orchestrator run
InitWs ==
    /\ tools = "stub"
    /\ reward_config = ShippedRewardConfig
    /\ workflow = "standard"
    /\ request = CHOOSE r \in Requests : ~r.transaction.present /\ r.documents = 0
                                         /\ ~r.beneficiary.present
    /\ pc = "idle"
    /\ current_phase = "intake"
    /\ phases = <<>>
    /\ intake = None
    /\ analysis = <<>>
    /\ decision = NoDecision
    /\ explanation = None
    /\ invoked = {}
    /\ batch_results = <<>>
    /\ response = NoResponse
    /\ app = NoApp /\ settings = NoSettings /\ calc = NoCalc
    /\ router = NoComponent /\ registry = NoComponent /\ protocol = NoComponent /\ svc = NoComponent
    /\ ws = [pc |-> "ready", entries |-> <<>>, inserts |-> 0, bc |-> NoBroadcast]

NextWs ==
    \/ Connect
    \/ Disconnect
    \/ Broadcast
    \/ SendTextReturns

SpecWs == InitWs /\ [][NextWs]_vars

----------------------------------------------------------------------------
(* Vocabulary of the properties *)

Range(seq) == {seq[i] : i \in 1..Len(seq)}

\* Intake's validation, as the design states it: present, id non-empty, amount >= 0
WellFormed(transaction) ==
    transaction.present /\ transaction.id # "" /\ transaction.amount >= 0

\* the weight key an analysis is aggregated under
WeightKeyOf(key) ==
    CASE key = "transaction_analysis" -> "transaction"
      [] key = "document_analysis" -> "document"
      [] key = "pattern_detection" -> "pattern"
      [] key = "identity_verification" -> "identity"
      [] key = "network_analysis" -> "network"

\* the risk contribution of a stored analysis: the document and identity
\* analyses carry a trust score, the others a risk score
ContributionOf(entry) ==
    IF entry.key \in {"document_analysis", "identity_verification"}
      THEN 100 - entry.val ELSE entry.val

RECURSIVE SetSum(_, _)
SetSum(S, f) ==
    IF S = {} THEN 0
    ELSE LET e == CHOOSE x \in S : TRUE IN f[e] + SetSum(S \ {e}, f)

\* sum over the available analyses of contribution * default weight, and of the weights
AvailableWeighted(entries) ==
    SetSum(entries, [e \in entries |-> ContributionOf(e) * weights[WeightKeyOf(e.key)]])

AvailableWeight(entries) ==
    SetSum(entries, [e \in entries |-> weights[WeightKeyOf(e.key)]])

Decided == decision # NoDecision

Returned == pc = "returned"

StandardReturned == Returned /\ workflow = "standard"

----------------------------------------------------------------------------
(* Properties *)

C2_AdapterFailureIsLocal ==
    (StandardReturned /\ analysis # <<>>) =>
        /\ "decide" \in Range(phases)
        /\ response.error # "AgentError"
        /\ response.error # "AttributeError"

\* C3 (as stated): the probability Decide computes is the weighted sum over
\* the adapters that returned Ok with the default weights redistributed
\* proportionally over them: p * (sum of their weights) = sum of
\* contribution * weight, the weights being percentages.
C3_WeightsRedistributed ==
    (Decided /\ analysis # <<>>) =>
        decision.fraud_probability * AvailableWeight(Range(analysis))
            = 100 * AvailableWeighted(Range(analysis))

\* C4 (as stated): a Standard request whose transaction is absent, has an
\* empty id or a negative amount never leaves Intake: no agent is invoked, no
\* later phase starts, and the run returns InvalidInputError.
C4_InvalidInputShortCircuits ==
    (workflow = "standard" /\ ~WellFormed(request.transaction)) =>
        /\ invoked = {}
        /\ Range(phases) \subseteq {"intake"}
        /\ (Returned => response.error = "InvalidInputError")

\* C5 (as stated): a Standard run on a well-formed request in which no tool
\* call of an adapter failed returns status success with a decision.
C5_StandardRunSucceeds ==
    (StandardReturned /\ WellFormed(request.transaction) /\ response.error # "AgentError") =>
        /\ response.status = "success"
        /\ response.decision \in {"PASS", "FLAG", "BLOCK"}

\* C6 (as stated): every returned result, of a Standard, Investigation or
\* Quick run and of each item of a Batch, whose risk level is Critical has
\* action Block.
C6_CriticalIsBlocked ==
    (Returned /\ response.status = "success") =>
        /\ (response.risk_level = "critical" => response.decision = "BLOCK")
        /\ \A i \in 1..Len(response.results) :
             response.results[i].risk_level = "critical"
                 => response.results[i].recommended_action = "BLOCK"

\* the run is inside its Analyze phase
InAnalyze == current_phase = "analyze" /\ pc \notin {"returned", "decide", "gather"}

\* C7 (as stated): the Analyze phase never blocks indefinitely: while the run
\* is in Analyze some step (a completion, or the deadline cancelling what is
\* still running) can always be taken.
C7_AnalyzeNeverHangs == InAnalyze => ENABLED NextHarness

PhaseOrder == <<"intake", "analyze", "decide", "explain">>

IsPrefix(a, b) == Len(a) <= Len(b) /\ \A i \in 1..Len(a) : a[i] = b[i]

\* C8: the phases a run has entered are, in order, an initial part of Intake,
\* Analyze, Decide, Explain (none entered twice, none out of order); when
\* Decide has started every agent the Analyze phase called has returned its
\* result; when Explain has started the decision record exists.
C8_PhaseOrder ==
    /\ IsPrefix(phases, PhaseOrder)
    /\ (phases # <<>> => current_phase = phases[Len(phases)])
    /\ ("decide" \in Range(phases) => \A k \in invoked \cap KeySet : Has(analysis, k))
    /\ ("explain" \in Range(phases) => Decided)

\* C8 witness: a Standard run that called all five agents, went through the
\* four phases and returned its decision.
C8_Witness ==
    /\ StandardReturned
    /\ phases = PhaseOrder
    /\ Len(analysis) = 5
    /\ response.status = "success"

\* C9 (as stated): once Explain has started, a Standard run that returns
\* returns the decision of Decide unchanged with status success, whether or
\* not the explanation generator failed.
C9_ExplanationFailureIsNonFatal ==
    (StandardReturned /\ "explain" \in Range(phases)) =>
        /\ response.status = "success"
        /\ response.decision = decision.action
        /\ response.fraud_probability = decision.fraud_probability
        /\ response.risk_level = decision.risk_level

\* C10: the decision depends only on the set of analyses, not on the order in
\* which they were stored: the fraud probability is the sum over that set of
\* contribution * weight, clamped to [0, 1], and the risk level and action
\* are those of that probability.
C10_OrderIndependent ==
    Decided =>
        LET p == Min(Max(AvailableWeighted(Range(analysis)), 0), 10000)
        IN  /\ decision.fraud_probability = p
            /\ decision.risk_level = classify_risk(p)
            /\ decision.action = FinalAction(classify_risk(p), should_flag(p))

\* C10 witness: a decision over analyses stored in another order than the
\* one _analyze_phase uses, with different values, and a positive probability.
C10_Witness ==
    /\ Decided
    /\ Len(analysis) = 5
    /\ analysis[1].key = "network_analysis"
    /\ analysis[2].key = "document_analysis"
    /\ analysis[5].key = "transaction_analysis"
    /\ analysis[1].val # analysis[5].val
    /\ decision.fraud_probability > 0

\* analysis_results with the value stored at position i replaced by v
ReplaceVal(d, i, v) == [d EXCEPT ![i].val = v]

RiskRank(level) ==
    CASE level = "low" -> 0 [] level = "medium" -> 1 [] level = "high" -> 2 [] level = "critical" -> 3

\* C11: aggregation is monotone.  For the analyses a decision was taken on,
\* replacing the value of one analysis by one whose risk contribution is at
\* least as high, the others and the set of analyses unchanged, gives a
\* fraud probability at least as high, a risk level at least as high, and
\* never Pass where the decision was Flag or Block.
C11_Monotone ==
    Decided =>
        \A i \in 1..Len(analysis), v \in Scores :
            LET raised == ReplaceVal(analysis, i, v)
                other == DecisionOf(raised, reward_config)
            IN  ContributionOf(raised[i]) >= ContributionOf(analysis[i]) =>
                    /\ other.fraud_probability >= decision.fraud_probability
                    /\ RiskRank(other.risk_level) >= RiskRank(decision.risk_level)
                    /\ (decision.action # "PASS" => other.action # "PASS")

\* C11 witness: a decision over five analyses with action Pass, where raising
\* the contribution of one analysis raises the probability and the risk
\* level and turns the action into Flag or Block.
C11_Witness ==
    /\ Decided
    /\ Len(analysis) = 5
    /\ decision.action = "PASS"
    /\ \E i \in 1..5, v \in Scores :
         LET raised == ReplaceVal(analysis, i, v)
             other == DecisionOf(raised, reward_config)
         IN  /\ ContributionOf(raised[i]) > ContributionOf(analysis[i])
             /\ other.fraud_probability > decision.fraud_probability
             /\ RiskRank(other.risk_level) > RiskRank(decision.risk_level)
             /\ other.action # "PASS"

\* the analyses _analyze_phase does not call for, their optional input being absent
SkippedKeys(req) ==
    (IF req.documents = 0 THEN {"document_analysis"} ELSE {})
    \cup (IF ~req.beneficiary.present THEN {"identity_verification"} ELSE {})
    \cup (IF NetworkBeneficiaryId(req) = "" THEN {"network_analysis"} ELSE {})

\* the confidence of lines 346-347 with the variance taken over the scores of
\* the analyses present only
ConfidenceOverAvailable(analysis_results) ==
    LET scores == ExtractScores(analysis_results)
        weighted_score == WeightedScore(scores)
        avail == {WeightKeyOf(e.key) : e \in Range(analysis_results)}
        sq == [k \in avail |-> (scores[k] * 100 - weighted_score) * (scores[k] * 100 - weighted_score)]
        score_variance == SetSum(avail, sq) \div Cardinality(avail)
    IN  10000 - (Min(score_variance, 25000000) * 4) \div 10000

\* C12 (as stated): in a decision of a Standard or Investigation run, an
\* adapter whose optional input is absent was not called and stored no
\* result, adds nothing to the weighted sum, is left out of the variance the
\* confidence is computed from, and is recorded among the decision's findings
\* with type missing_input.
C12_SkippedIsRecorded ==
    (Decided /\ workflow \in {"standard", "investigation"}) =>
        \A k \in SkippedKeys(request) :
            /\ k \notin invoked
            /\ ~Has(analysis, k)
            /\ decision.fraud_probability = Min(Max(AvailableWeighted(Range(analysis)), 0), 10000)
            /\ decision.confidence = ConfidenceOverAvailable(analysis)
            /\ \E i \in 1..Len(decision.key_findings) :
                 /\ decision.key_findings[i].type = "missing_input"
                 /\ decision.key_findings[i].source = WeightKeyOf(k)

\* the invariant the design puts on a cost matrix
ValidCostMatrix(m) == m.FN < m.FP /\ m.FP < 0 /\ m.TP >= 0 /\ m.TN >= 0

\* C13 (as stated): a request to load or update the cost matrix with a matrix
\* that violates the invariant is answered with a ConfigurationError, and the
\* matrix in effect (in the cache and in the settings file) is never an
\* invalid one.
C13_InvalidMatrixRejected ==
    /\ (settings.pc = "ready"
        /\ settings.last.op \in {"put_settings", "put_cost_matrix", "import"}
        /\ ~ValidCostMatrix(settings.last.requested))
           => settings.last.status = "ConfigurationError"
    /\ (settings.pc = "ready" /\ settings.cache # None) => ValidCostMatrix(settings.cache)
    /\ (settings.pc = "ready" /\ settings.file # None) => ValidCostMatrix(settings.file)

\* C14 (as stated): a batch of more than 1000 transactions is rejected at
\* intake: none of its transactions is scored, no result is accumulated, and
\* the run returns an error saying the batch is too large.
C14_OversizedBatchRejected ==
    (workflow = "batch" /\ request.transactions > BATCH_LIMIT) =>
        /\ "transaction_analysis" \notin invoked
        /\ batch_results = <<>>
        /\ (Returned => response.status = "error" /\ response.error = "BatchTooLarge")

\* C15: in a Quick run the only agent called is the transaction analyst: the
\* document, pattern, identity and network agents and the explanation
\* generator are never called, no phase of the Standard workflow is entered
\* (so never Explain), and no decision record or explanation is built.
C15_QuickOnlyTransaction ==
    workflow = "quick" =>
        /\ invoked \subseteq {"transaction_analysis"}
        /\ "explain" \notin Range(phases)
        /\ phases = <<>>
        /\ analysis = <<>>
        /\ explanation = None
        /\ ~Decided
        /\ (Returned /\ response.status = "success" => response.explanation = "")

\* C15 witness: a Quick run that called the transaction analyst and returned
\* its screening result.
C15_Witness ==
    /\ workflow = "quick"
    /\ Returned
    /\ response.status = "success"
    /\ response.decision = "FLAG"
    /\ invoked = {"transaction_analysis"}

\* the fields of the decision record, as the result returned to a caller shows them
ShowsDecision(result, dec) ==
    /\ result.decision = dec.action
    /\ result.fraud_probability = dec.fraud_probability
    /\ result.risk_level = dec.risk_level

\* C16: the decision record is written once, by the Decide phase, and never
\* afterwards: the Explain phase, the investigation report, the UI response
\* builder, the notification and the return leave its action, probability,
\* risk level, component scores and cost matrix as Decide set them, and the
\* result handed to the caller of process_transaction shows those values.
C16_DecisionImmutable ==
    [][/\ Decided => decision' = decision
       /\ decision' # decision => (pc = "decide" /\ decision = NoDecision
                                   /\ "explain" \notin Range(phases))
       /\ (app'.pc = "done" /\ Decided' /\ response'.status = "success")
             => ShowsDecision(app'.returned.result, decision')]_vars

\* C16 witness: an Investigation run that decided BLOCK, explained, attached
\* its report, notified the user and returned to the caller.
C16_Witness ==
    /\ app.pc = "done"
    /\ workflow = "investigation"
    /\ Decided
    /\ decision.action = "BLOCK"
    /\ phases = PhaseOrder
    /\ response.report
    /\ app.delivery # None
    /\ app.returned.result.decision = "BLOCK"

C18_SingleThreshold ==
    Decided =>
        /\ decision.threshold_used =
               calculate_optimal_threshold(CostSensitiveRewardOf(RewardConfigOf(cost_matrix_applied)))
        /\ (decision.action # "PASS") <=> (decision.fraud_probability >= decision.threshold_used)

\* C19: classify_risk gives a probability of [0, 1] exactly one level by the
\* fixed cutpoints (critical from 0.7, high from 0.4, medium from 0.2, low
\* below); no smaller probability has a higher level; and for the threshold
\* held fixed, no smaller probability is flagged when this one is not.
C19_CutpointsMonotone ==
    /\ "classify_risk" \in calc.called =>
          /\ calc.risk_level \in {"critical", "high", "medium", "low"}
          /\ (calc.risk_level = "critical") <=> (calc.p >= 7000)
          /\ (calc.risk_level = "high") <=> (calc.p >= 4000 /\ calc.p < 7000)
          /\ (calc.risk_level = "medium") <=> (calc.p >= 2000 /\ calc.p < 4000)
          /\ (calc.risk_level = "low") <=> (calc.p < 2000)
          /\ \A q \in Probabilities :
                q <= calc.p => RiskRank(classify_risk(q)) <= RiskRank(calc.risk_level)
    /\ "should_flag" \in calc.called =>
          /\ calc.flagged <=> (calc.p >= calc.threshold)
          /\ \A q \in Probabilities :
                (q <= calc.p /\ should_flag_at(q, calc.threshold)) => calc.flagged

\* C19: a probability on a cutpoint has been classified and tested against a
\* threshold it reaches, a smaller probability being below both
C19_Witness ==
    /\ calc # NoCalc
    /\ {"classify_risk", "should_flag"} \subseteq calc.called
    /\ calc.p = 4000
    /\ calc.risk_level = "high"
    /\ calc.flagged
    /\ \E q \in Probabilities :
          /\ q < calc.p
          /\ classify_risk(q) = "medium"
          /\ ~should_flag_at(q, calc.threshold)

\* C20: the expected reward of a decision is p*TP + (1-p)*FP when flagged and
\* p*FN + (1-p)*TN when not, and the analyst's _calculate_expected_reward and
\* the calculator's calculate_expected_reward, under the same cost matrix,
\* return that same value for the same probability and flag decision.
C20_ExpectedRewardAgrees ==
    LET m == calc.matrix
        expected ==
            IF calc.flag_decision
              THEN calc.p * m.TP + (10000 - calc.p) * m.FP
              ELSE calc.p * m.FN + (10000 - calc.p) * m.TN
    IN  /\ "_calculate_expected_reward" \in calc.called => calc.agent_reward = expected
        /\ "calculate_expected_reward" \in calc.called => calc.calculator_reward = expected
        /\ {"_calculate_expected_reward", "calculate_expected_reward"} \subseteq calc.called =>
               calc.agent_reward = calc.calculator_reward

\* C20: both implementations have computed the reward of a pass decision at a
\* probability inside (0, 1), under a matrix whose four entries differ
C20_Witness ==
    /\ calc # NoCalc
    /\ {"_calculate_expected_reward", "calculate_expected_reward"} \subseteq calc.called
    /\ calc.p = 3000
    /\ ~calc.flag_decision
    /\ calc.matrix = [TP |-> 3, TN |-> 7, FP |-> -11, FN |-> -13]
    /\ calc.agent_reward = 3000 * (-13) + 7000 * 7
    /\ calc.calculator_reward = calc.agent_reward

\* adapter priority of a finding's source: pattern first, document last
AdapterPriority(source) ==
    CASE source = "pattern" -> 0 [] source = "identity" -> 1 [] source = "network" -> 2
      [] source = "transaction" -> 3 [] source = "document" -> 4

\* C21: the key findings of a decision are at most ten, no finding of a lower
\* severity precedes one of a higher severity, and of two findings of the same
\* severity the one of the adapter with priority (pattern, identity, network,
\* transaction, document) comes first.
C21_FindingsOrdered ==
    Decided =>
        LET kf == decision.key_findings
        IN  /\ Len(kf) <= 10
            /\ \A i, j \in 1..Len(kf) :
                  i < j =>
                     /\ severity_order[kf[i].severity] <= severity_order[kf[j].severity]
                     /\ kf[i].severity = kf[j].severity =>
                           AdapterPriority(kf[i].source) <= AdapterPriority(kf[j].source)

\* C22: process_queue routes a message at most 1 + max_retries = 4 times,
\* then drops it, whatever route_message returns.
C22_RoutedAtMostFourTimes ==
    router # NoComponent =>
        \A m \in Messages : router.routed[m] <= 1 + MAX_RETRIES

\* the entry of message m, in the queue or popped
EntryOf(m) ==
    LET entries == router.message_queue \o router.pending
    IN  entries[CHOOSE i \in 1..Len(entries) : entries[i].message = m]

\* C23: a message queued again after a failed attempt has a priority strictly
\* lower than the priority it had on that attempt, whatever its task type.
C23_RetryLowersPriority ==
    (router # NoComponent /\ router.retried # <<>>) =>
        EntryOf(router.retried[1].message).priority < router.retried[1].failed

\* entry a is routed before entry b: a higher priority, or the same and
\* queued earlier
Beats(a, b) ==
    \/ a.priority > b.priority
    \/ a.priority = b.priority /\ a.arrival < b.arrival

\* C24: message_queue is in order of non-increasing priority with entries of
\* equal priority in arrival order, after every call of queue_message; and the
\* entry process_queue pops is before every entry left in the queue.
C24_QueueOrdered ==
    [][router' # NoComponent =>
          /\ \A i, j \in 1..Len(router'.message_queue) :
                i < j => Beats(router'.message_queue[i], router'.message_queue[j])
          /\ router'.routed # router.routed =>
                \A i \in 1..Len(router'.message_queue) :
                    Beats(router'.pending[1], router'.message_queue[i])]_vars

\* C24: of two entries of equal priority the one queued first is being
\* routed while the other waits, and a retry has been queued behind neither
C24_Witness ==
    /\ router # NoComponent
    /\ router.pc = "routing"
    /\ Len(router.message_queue) = 1
    /\ router.pending[1].priority = router.message_queue[1].priority
    /\ router.pending[1].arrival < router.message_queue[1].arrival
    /\ router.retried = <<>>

\* C25: every agent id in the list of a task is a registered agent whose
\* supported_tasks contain that task, and no list holds an id twice, after
\* any sequence of register, deregister, update_status, heartbeat and
\* cleanup_stale_agents.
C25_TaskListsCurrent ==
    registry # NoComponent =>
        \A t \in Tasks :
            LET list == registry.task_to_agents[t]
            IN  /\ \A i \in 1..Len(list) :
                      /\ registry.agents[list[i]].present
                      /\ t \in Elems(registry.agents[list[i]].supported_tasks)
                /\ \A i, j \in 1..Len(list) : list[i] = list[j] => i = j

\* C26: no message id is both pending and completed; process_response
\* returns True exactly when the correlation id is pending, and then moves it
\* to completed_tasks with the response; for an id unknown or already
\* completed it returns False and changes neither map.
C26_PendingCompletedDisjoint ==
    [][protocol' # NoComponent =>
          /\ \A m \in protocol'.pending_tasks : protocol'.completed_tasks[m] = ""
          /\ protocol'.calls # protocol.calls =>
                LET resp == protocol'.response[1]
                    id == resp.correlation_id
                IN  /\ protocol'.returned <=> id \in protocol.pending_tasks
                    /\ protocol'.returned =>
                          /\ protocol'.pending_tasks = protocol.pending_tasks \ {id}
                          /\ protocol'.completed_tasks =
                                 [protocol.completed_tasks EXCEPT ![id] = resp.status]
                    /\ ~protocol'.returned =>
                          /\ protocol'.pending_tasks = protocol.pending_tasks
                          /\ protocol'.completed_tasks = protocol.completed_tasks]_vars

\* C26: a second response to a request already completed was refused, the
\* first one kept, with another request still pending
C26_Witness ==
    /\ protocol # NoComponent
    /\ protocol.response # <<>>
    /\ ~protocol.returned
    /\ protocol.response[1].correlation_id = 1
    /\ protocol.response[1].status = "FAILED"
    /\ protocol.completed_tasks[1] = "COMPLETED"
    /\ protocol.pending_tasks = {2}

\* C27: when the concurrent calls of update_settings, import_settings and
\* reset_to_defaults have all completed, the audit log holds the entry of
\* each of them (fewer than the retention having been written), and the
\* cached settings are the settings last written to the settings file.
C27_NoAuditEntryLost ==
    (svc # NoComponent /\ \A c \in Calls : svc.calls[c].pc = "done") =>
        /\ \A c \in Calls : AuditEntry(c) \in Elems(svc.audit)
        /\ svc.cache = svc.file

\* C28: a broadcast interleaved with connect and disconnect of clients never
\* raises, and once it has completed, every client that was connected from
\* its start to its end has been sent the message.
C28_BroadcastCompletes ==
    ws # NoComponent =>
        /\ ws.bc.state # "raised"
        /\ ws.bc.state = "completed" => ws.bc.stayed \subseteq ws.bc.sent

\* the actions of the recommendations of the explanation
Recommended == {explanation.recommendations[i].action : i \in 1..Len(explanation.recommendations)}

\* C29: the explanation of a FLAG or BLOCK decision recommends the transfer
\* for investigation and not the automatic processing; only the explanation
\* of a PASS decision recommends the automatic processing.
C29_RecommendationsFollowAction ==
    (Decided /\ explanation # None) =>
        /\ decision.action \in {"FLAG", "BLOCK"} =>
              /\ "Transferer pour investigation" \in Recommended
              /\ "Traitement automatique possible" \notin Recommended
        /\ "Traitement automatique possible" \in Recommended => decision.action = "PASS"

====
